---- MODULE Spec2Model ----
(***************************************************************************)
(* Hybrid genetic algorithm for task scheduling: fitness evaluator,        *)
(* population initializer, evolution engine and island model.              *)
(*                                                                         *)
(* Representation.                                                         *)
(*   A task table is a sequence of records (Python dicts keep insertion    *)
(*   order) [id, estimated_time, dependencies, skill_requirements]; a      *)
(*   worker table is a sequence of records [id, skills].                   *)
(*   A gene is the triple <<task_id, student_id, start_time>>.  The code   *)
(*   stores start times in three forms that compare differently under      *)
(*   Python's ==, so a start time is the pair <<form, value>>:             *)
(*     "si"  str() of the int 0            ('0')                           *)
(*     "sf"  str() of a float              ('2.0')                         *)
(*     "n"   a number (float, or the int 0 of max(0, x))                   *)
(*   float(start_time) is the value, whatever the form.                    *)
(*   Fitness values are kept exactly, multiplied by the total task         *)
(*   duration D of the Problem (every term of the fitness is a multiple of *)
(*   1/D when times, durations and skill levels are integers); for one     *)
(*   Problem the order of the scaled values is the order of the fitnesses. *)
(***************************************************************************)
EXTENDS Integers, Sequences, FiniteSets, TLC

VARIABLES
    tasks,      \* the Problem's task table
    students,   \* the Problem's worker table
    op,         \* harness: the operation last applied ("none" before)
    arg,        \* harness: its input
    res,        \* harness: its result
    pc,         \* position of the call in progress
    strategy,         \* PopulationInitializer.strategy
    population_size,  \* create_population: the target size
    population,       \* create_population: the list being built
    attempts,         \* create_population: iterations of the while loop so far
    exc,              \* the exception raised to the caller ("none" if none)
    islands,                \* IslandModel.islands: the engines
    migration_interval,     \* IslandModel.migration_interval
    migration_size,         \* IslandModel.migration_size
    best_solution,          \* IslandModel.best_solution
    best_solution_fitness,  \* IslandModel.best_solution_fitness
    generation,             \* run: the loop variable of line 44
    island_index,           \* run, _migrate_solutions: the loop variable i
    steps_done,        \* history: generation steps each island has finished
    last_crossover,   \* history: the crossovers of the latest generation step
    round,            \* history: the latest migration round
    rounds            \* history: the generations followed by a migration round

vars == <<tasks, students, op, arg, res, pc,
          strategy, population_size, population, attempts, exc,
          islands, migration_interval, migration_size, best_solution,
          best_solution_fitness, generation, island_index, steps_done,
          last_crossover, round, rounds>>

harnessVars == <<op, arg, res>>
initVars == <<strategy, population_size, population, attempts, exc>>
modelVars == <<migration_interval, migration_size, best_solution,
               best_solution_fitness, generation, island_index>>
historyVars == <<steps_done, last_crossover, round, rounds>>
islandVars == <<islands, modelVars, historyVars>>

-----------------------------------------------------------------------------
(* Bounds of the model *)

MaxLen == 2
MaxStart == 1
MaxPop == 2
MaxAttempts == 3
MaxDraw == 1

(* float('inf') *)
Inf == 1000000000

(* weights of FitnessCalculator.__init__ *)
w1 == 1
w2 == 3
w3 == 2
w4 == 1
w5 == 4

-----------------------------------------------------------------------------
(* Generic helpers *)

RECURSIVE SumSeq(_)
SumSeq(s) == IF s = <<>> THEN 0 ELSE Head(s) + SumSeq(Tail(s))

SetMax(S) == CHOOSE x \in S : \A y \in S : y <= x
SetMin(S) == CHOOSE x \in S : \A y \in S : x <= y

EmptyMap == [k \in {} |-> 0]

(* Python's None where a solution is expected: it differs from every       *)
(* solution by its task identifier                                         *)
None == <<<<"None", "None", <<"n", 0>>>>>>

-----------------------------------------------------------------------------
(* The Problem *)

TaskIds(ts) == {ts[i].id : i \in DOMAIN ts}
StudentIds(ss) == {ss[i].id : i \in DOMAIN ss}
TaskOf(ts, id) == ts[CHOOSE i \in DOMAIN ts : ts[i].id = id]
StudentOf(ss, id) == ss[CHOOSE i \in DOMAIN ss : ss[i].id = id]
Duration(ts, id) == TaskOf(ts, id).estimated_time

(* float(start_time) *)
Float(start) == start[2]

-----------------------------------------------------------------------------
(* FitnessCalculator.calculate_fitness *)

total_task_duration(ts) == SumSeq([i \in DOMAIN ts |-> ts[i].estimated_time])

(* line 25-34: the first pass indexes self.tasks and student_workloads *)
FirstPassKeyError(ts, ss, sol) ==
    \E i \in DOMAIN sol :
        sol[i][1] \notin TaskIds(ts) \/ sol[i][2] \notin StudentIds(ss)

(* a dict keeps the value of the last assignment of a key *)
LastGene(sol, t) ==
    sol[SetMax({i \in DOMAIN sol : sol[i][1] = t})]

Covered(sol) == {sol[i][1] : i \in DOMAIN sol}

start_times(sol) == [t \in Covered(sol) |-> Float(LastGene(sol, t)[3])]

completion_times(ts, sol) ==
    [t \in Covered(sol) |-> Float(LastGene(sol, t)[3]) + Duration(ts, t)]

student_workload(ts, sol, s) ==
    SumSeq([i \in DOMAIN sol |->
              IF sol[i][2] = s THEN Duration(ts, sol[i][1]) ELSE 0])

(* list.sort() of (start, completion) tuples *)
PairLeq(a, b) == a[1] < b[1] \/ (a[1] = b[1] /\ a[2] <= b[2])

RECURSIVE InsertPair(_, _)
InsertPair(p, s) ==
    IF s = <<>> THEN <<p>>
    ELSE IF PairLeq(p, Head(s)) THEN <<p>> \o s
    ELSE <<Head(s)>> \o InsertPair(p, Tail(s))

RECURSIVE SortPairs(_)
SortPairs(s) ==
    IF s = <<>> THEN <<>> ELSE InsertPair(Head(s), SortPairs(Tail(s)))

(* the timeline of a worker left in the order of the solution *)
student_timeline_unsorted(ts, sol, s) ==
    LET mine == SelectSeq(sol, LAMBDA g : g[2] = s)
    IN  [i \in DOMAIN mine |->
            <<Float(mine[i][3]), Float(mine[i][3]) + Duration(ts, mine[i][1])>>]

student_timeline(ts, sol, s) ==
    LET mine == SelectSeq(sol, LAMBDA g : g[2] = s)
    IN  SortPairs([i \in DOMAIN mine |->
            <<Float(mine[i][3]), Float(mine[i][3]) + Duration(ts, mine[i][1])>>])

(* line 77-81 looking at the first two entries of the timeline only *)
TimelineOverlap_first_pair(tl) ==
    IF Len(tl) >= 2 /\ tl[1][2] > tl[2][1] THEN tl[1][2] - tl[2][1] ELSE 0

(* line 78-81: overlap of each adjacent pair of the sorted timeline *)
TimelineOverlap(tl) ==
    SumSeq([i \in 1..(Len(tl) - 1) |->
              IF tl[i][2] > tl[i + 1][1] THEN tl[i][2] - tl[i + 1][1] ELSE 0])

(* line 46-47: the (task, dependency) pairs in the order the loops visit  *)
(* them                                                                    *)
RECURSIVE DepPairs(_)
DepPairs(ts) ==
    IF ts = <<>> THEN <<>>
    ELSE [k \in DOMAIN Head(ts).dependencies |->
            <<Head(ts).id, Head(ts).dependencies[k]>>] \o DepPairs(Tail(ts))

(* line 48-50: the first pair the loop cannot evaluate, 0 if there is none: *)
(* the dependency has no assignment (line 48, returns inf) or the task has *)
(* none (start_times[task_id] at line 50 raises KeyError; unreachable      *)
(* behind the test of line 37)                                             *)
FirstBadPair(ts, sol) ==
    LET dp == DepPairs(ts)
        bad == {k \in DOMAIN dp :
                  dp[k][2] \notin Covered(sol) \/ dp[k][1] \notin Covered(sol)}
    IN  IF bad = {} THEN 0 ELSE SetMin(bad)

(* line 50-52: sum of the violations, P_dep * D / 300 *)
DepViolations(ts, sol) ==
    LET ct == completion_times(ts, sol)
        st == start_times(sol)
        dp == DepPairs(ts)
    IN  SumSeq([k \in DOMAIN dp |->
            IF st[dp[k][1]] < ct[dp[k][2]]
            THEN ct[dp[k][2]] - st[dp[k][1]] ELSE 0])

(* line 56-62: sum of the skill shortfalls, P_skill / 200 *)
RECURSIVE SumShortfall(_, _, _)
SumShortfall(req, sk, S) ==
    IF S = {} THEN 0
    ELSE LET s == CHOOSE x \in S : TRUE
             lvl == IF s \in DOMAIN sk THEN sk[s] ELSE 0
         IN  (IF lvl < req[s] THEN req[s] - lvl ELSE 0)
                + SumShortfall(req, sk, S \ {s})

SkillGap(ts, ss, sol) ==
    SumSeq([i \in DOMAIN sol |->
        LET req == TaskOf(ts, sol[i][1]).skill_requirements
        IN  SumShortfall(req, StudentOf(ss, sol[i][2]).skills, DOMAIN req)])

(* line 76-81: sum of the overlaps, P_overlap * D / 400 *)
OverlapSum(ts, ss, sol) ==
    SumSeq([i \in DOMAIN ss |->
        TimelineOverlap(student_timeline(ts, sol, ss[i].id))])

(* line 40-90, for a non-empty solution whose genes name tasks and workers *)
(* of the Problem: the five penalty terms and their weighted sum, times D  *)
Penalties(ts, ss, sol) ==
    LET D == total_task_duration(ts)
        ct == completion_times(ts, sol)
        st == start_times(sol)
        span == SetMax({ct[t] : t \in Covered(sol)})
                  - SetMin({st[t] : t \in Covered(sol)})
        loads == {student_workload(ts, sol, ss[i].id) : i \in DOMAIN ss}
        bad == FirstBadPair(ts, sol)
    IN  IF D = 0 THEN [exc |-> "ZeroDivisionError", val |-> 0]
        ELSE IF bad # 0 /\ DepPairs(ts)[bad][2] \notin Covered(sol)
            THEN [exc |-> "none", val |-> Inf]
        ELSE IF bad # 0 THEN [exc |-> "KeyError", val |-> 0]
        ELSE [exc |-> "none",
              val |-> w1 * 100 * span
                      + w2 * 300 * DepViolations(ts, sol)
                      + w3 * 200 * D * SkillGap(ts, ss, sol)
                      + w4 * 100 * (SetMax(loads) - SetMin(loads)) * Len(ss)
                      + w5 * 400 * OverlapSum(ts, ss, sol)]

(* calculate_fitness without the test of line 37 *)
calculate_fitness_no_coverage_test(ts, ss, sol) ==
    IF sol = <<>> THEN [exc |-> "none", val |-> Inf]
    ELSE IF FirstPassKeyError(ts, ss, sol) THEN [exc |-> "KeyError", val |-> 0]
    ELSE Penalties(ts, ss, sol)

(* The result of calculate_fitness: the exception it raises, if any, and   *)
(* the value it returns, multiplied by D (Inf stands for float('inf')).    *)
calculate_fitness(ts, ss, sol) ==
    IF sol = <<>> THEN [exc |-> "none", val |-> Inf]
    ELSE IF FirstPassKeyError(ts, ss, sol) THEN [exc |-> "KeyError", val |-> 0]
    ELSE IF Cardinality(Covered(sol)) # Len(ts)
        THEN [exc |-> "none", val |-> Inf]
    ELSE Penalties(ts, ss, sol)

-----------------------------------------------------------------------------
(* Fitness harness: the Problem and the solution are drawn from bounded    *)
(* sets, then calculate_fitness is applied.                                *)

TaskUniverse == {"T1", "T2"}
StudentUniverse == {"S1", "S2"}

StartForms ==
    {<<"si", 0>>} \cup {<<f, v>> : f \in {"sf", "n"}, v \in 0..MaxStart}

Genes == TaskUniverse \X StudentUniverse \X StartForms

SolutionsUpTo(n) == UNION {[1..k -> Genes] : k \in 0..n}

MkTask(id, d, deps, req) ==
    [id |-> id, estimated_time |-> d, dependencies |-> deps,
     skill_requirements |-> req]

MkStudent(id, sk) == [id |-> id, skills |-> sk]

FitTaskTables ==
    {<<MkTask("T1", d1, <<>>, EmptyMap)>> : d1 \in {0, 2}}
    \cup {<<MkTask("T1", d1, <<>>, EmptyMap), MkTask("T2", d2, deps, req)>> :
            d1 \in {0, 2}, d2 \in {0, 2}, deps \in {<<>>, <<"T1">>},
            req \in {EmptyMap, [x |-> 1]}}

FitStudentTables ==
    {<<>>,
     <<MkStudent("S1", EmptyMap)>>,
     <<MkStudent("S1", EmptyMap), MkStudent("S2", [x |-> 1])>>}

InitializerIdle ==
    /\ strategy = "none"
    /\ population_size = 0
    /\ population = <<>>
    /\ attempts = 0
    /\ exc = "none"

(* the record of a migration round: the generation it follows, the        *)
(* generation steps each island had finished and the populations when it   *)
(* began and, transfer by transfer, the source population, the migrants    *)
(* taken from it, the destination and its population before and after      *)
NoRound ==
    [g |-> -1, started |-> <<>>, pre |-> <<>>, source_at |-> <<>>,
     sent |-> <<>>, dest_before |-> <<>>, dest_after |-> <<>>, dest |-> <<>>]

(* no island model is running *)
IslandIdle ==
    /\ islands = <<>>
    /\ migration_interval = 1
    /\ migration_size = 1
    /\ best_solution = None
    /\ best_solution_fitness = Inf
    /\ generation = 0
    /\ island_index = 0
    /\ steps_done = <<>>
    /\ last_crossover = <<>>
    /\ round = NoRound
    /\ rounds = {}

FitInit ==
    /\ tasks \in FitTaskTables
    /\ students \in FitStudentTables
    /\ op = "none"
    /\ arg \in SolutionsUpTo(MaxLen)
    /\ res = [exc |-> "none", val |-> 0]
    /\ pc = "harness"
    /\ InitializerIdle
    /\ IslandIdle

CalculateFitness ==
    /\ pc = "harness"
    /\ op = "none"
    /\ op' = "calculate_fitness"
    /\ res' = calculate_fitness(tasks, students, arg)
    /\ UNCHANGED <<tasks, students, arg, pc, initVars, islandVars>>

FitNext == CalculateFitness

FitSpec == FitInit /\ [][FitNext]_vars

(* Properties of calculate_fitness, checked under FitSpec *)

FitnessApplied == op = "calculate_fitness"
ReturnedInf == res = [exc |-> "none", val |-> Inf]

NamesOnlyProblem(sol) ==
    \A i \in DOMAIN sol :
        sol[i][1] \in TaskIds(tasks) /\ sol[i][2] \in StudentIds(students)

HasDuplicateTask(sol) ==
    \E i, j \in DOMAIN sol : i # j /\ sol[i][1] = sol[j][1]

MissesATask(sol) == TaskIds(tasks) \ Covered(sol) # {}

(* C3: calculate_fitness returns +infinity for every solution that holds   *)
(* two or more assignments of one task, also when every task of the        *)
(* Problem has an assignment (stated for solutions naming only tasks and   *)
(* workers of a Problem of positive total duration).                       *)
C3_DuplicateTaskIsInf ==
    (/\ FitnessApplied
     /\ NamesOnlyProblem(arg)
     /\ total_task_duration(tasks) > 0
     /\ HasDuplicateTask(arg))
        => ReturnedInf

(* C4: for a solution naming only tasks and workers of the Problem that    *)
(* leaves a task of the Problem without an assignment (the empty solution  *)
(* included), calculate_fitness returns +infinity and does not raise.      *)
C4_MissingTaskIsInf ==
    (FitnessApplied /\ NamesOnlyProblem(arg) /\ MissesATask(arg))
        => ReturnedInf

C4_Witness ==
    /\ FitnessApplied
    /\ arg # <<>>
    /\ NamesOnlyProblem(arg)
    /\ MissesATask(arg)
    /\ total_task_duration(tasks) = 0
    /\ ReturnedInf

(* C5: for a Problem with zero workers, or with zero total task duration,  *)
(* calculate_fitness returns +infinity for every solution and never        *)
(* raises.                                                                 *)
C5_DegenerateIsInf ==
    (FitnessApplied /\ (students = <<>> \/ total_task_duration(tasks) = 0))
        => ReturnedInf

-----------------------------------------------------------------------------
(* PopulationInitializer *)

(* random.shuffle: every order of the task ids *)
Orders(S) ==
    {p \in [1..Cardinality(S) -> S] : \A i, j \in DOMAIN p : i # j => p[i] # p[j]}

(* str(current_time): current_time is the int 0 before the first task and  *)
(* a float afterwards                                                      *)
StrClock(k, t) == IF k = 1 THEN <<"si", 0>> ELSE <<"sf", t>>

(* the clock before the k-th task of the order: 0, then float(start_time)  *)
(* + estimated_time of the task before                                     *)
ClockAt(ts, order, k) ==
    SumSeq([j \in 1..(k - 1) |-> Duration(ts, order[j])])

(* _create_random_chromosome, for a shuffle and the workers random.choice  *)
(* returned                                                                *)
random_chromosome(ts, order, choice) ==
    [k \in DOMAIN order |->
        <<order[k], choice[k], StrClock(k, ClockAt(ts, order, k))>>]

(* random.choice([]) raises IndexError, once per task: only a non-empty    *)
(* task table reaches it                                                   *)
RandomChoiceRaises(ts, ss) == ts # <<>> /\ ss = <<>>

RandomChromosomes(ts, ss) ==
    {random_chromosome(ts, order, choice) :
        order \in Orders(TaskIds(ts)),
        choice \in [1..Len(ts) -> StudentIds(ss)]}

(* _calculate_skill_match *)
RECURSIVE SumMatch(_, _, _)
SumMatch(req, sk, S) ==
    IF S = {} THEN 0
    ELSE LET s == CHOOSE x \in S : TRUE
             lvl == IF s \in DOMAIN sk THEN sk[s] ELSE 0
         IN  (IF lvl >= req[s] THEN 1 ELSE 0 - (req[s] - lvl))
                + SumMatch(req, sk, S \ {s})

calculate_skill_match(ts, ss, task_id, student_id) ==
    LET req == TaskOf(ts, task_id).skill_requirements
    IN  SumMatch(req, StudentOf(ss, student_id).skills, DOMAIN req)

(* _get_task_order: depth-first post-order; st = [visited, order] *)
RECURSIVE Visit(_, _, _)
RECURSIVE VisitAll(_, _, _)
Visit(ts, task_id, st) ==
    IF task_id \in st.visited THEN st
    ELSE LET in == [st EXCEPT !.visited = @ \cup {task_id}]
             after == VisitAll(ts, TaskOf(ts, task_id).dependencies, in)
         IN  [after EXCEPT !.order = Append(@, task_id)]

VisitAll(ts, ids, st) ==
    IF ids = <<>> THEN st
    ELSE VisitAll(ts, Tail(ids), Visit(ts, Head(ids), st))

(* _get_task_order returning the tasks as the table lists them *)
get_task_order_as_listed(ts) == [i \in DOMAIN ts |-> ts[i].id]

get_task_order(ts) ==
    VisitAll(ts, [i \in DOMAIN ts |-> ts[i].id],
             [visited |-> {}, order |-> <<>>]).order

(* line 114-119 and 146-153: the latest completion among the dependencies  *)
(* (those in `among`) that the chromosome built so far holds               *)
DepEndTime(ts, chromosome, task_id, among) ==
    LET deps == TaskOf(ts, task_id).dependencies
        ends == {Float(chromosome[g][3]) + Duration(ts, chromosome[g][1]) :
                    g \in {h \in DOMAIN chromosome :
                             /\ chromosome[h][1] \in among
                             /\ \E k \in DOMAIN deps : deps[k] = chromosome[h][1]}}
    IN  SetMax(ends \cup {0})

(* str(max(a, b)) of line 129-131 and 155-157: max returns its first       *)
(* argument, the int 0, unless the second is greater                       *)
StrMax(v) == IF v = 0 THEN <<"si", 0>> ELSE <<"sf", v>>

(* _create_intelligent_chromosome: st = [chromosome, student_end_times].   *)
(* Without workers the loop of line 121 has no iteration: best_student     *)
(* stays None and earliest_start stays float('inf').                       *)
IntelligentPlace(ts, ss, st, task_id) ==
    LET dep_end_time == DepEndTime(ts, st.chromosome, task_id, TaskIds(ts))
        Score(i) == calculate_skill_match(ts, ss, task_id, ss[i].id)
                        - st.student_end_times[ss[i].id]
        best == SetMin({i \in DOMAIN ss : \A j \in DOMAIN ss : Score(j) <= Score(i)})
        best_student == IF ss = <<>> THEN "None" ELSE ss[best].id
        earliest_start ==
            IF ss = <<>> THEN Inf
            ELSE IF dep_end_time >= st.student_end_times[best_student]
                 THEN dep_end_time ELSE st.student_end_times[best_student]
        start_time == IF ss = <<>> THEN <<"sf", Inf>> ELSE StrMax(earliest_start)
        finish == IF ss = <<>> THEN Inf
                  ELSE earliest_start + Duration(ts, task_id)
    IN  [chromosome |-> Append(st.chromosome, <<task_id, best_student, start_time>>),
         student_end_times |->
            [s \in DOMAIN st.student_end_times \cup {best_student} |->
                IF s = best_student THEN finish ELSE st.student_end_times[s]]]

RECURSIVE IntelligentBuild(_, _, _, _)
IntelligentBuild(ts, ss, order, st) ==
    IF order = <<>> THEN st
    ELSE IntelligentBuild(ts, ss, Tail(order),
                          IntelligentPlace(ts, ss, st, Head(order)))

intelligent_chromosome(ts, ss) ==
    IntelligentBuild(ts, ss, get_task_order(ts),
        [chromosome |-> <<>>,
         student_end_times |-> [s \in StudentIds(ss) |-> 0]]).chromosome

(* _create_dependency_based_chromosome: st = [chromosome, current_time],   *)
(* k the position in the order, choice the workers random.choice returned  *)
RECURSIVE DependencyBuild(_, _, _, _, _)
DependencyBuild(ts, order, choice, k, st) ==
    IF k > Len(order) THEN st.chromosome
    ELSE LET completed == {st.chromosome[g][1] : g \in DOMAIN st.chromosome}
             max_dep_time == DepEndTime(ts, st.chromosome, order[k], completed)
             now == IF max_dep_time > st.current_time
                    THEN max_dep_time ELSE st.current_time
             start_time == IF k = 1 THEN StrMax(now) ELSE <<"sf", now>>
         IN  DependencyBuild(ts, order, choice, k + 1,
                [chromosome |-> Append(st.chromosome,
                                       <<order[k], choice[k], start_time>>),
                 current_time |-> now + Duration(ts, order[k])])

DependencyChromosomes(ts, ss) ==
    {DependencyBuild(ts, get_task_order(ts), choice, 1,
                     [chromosome |-> <<>>, current_time |-> 0]) :
        choice \in [1..Len(ts) -> StudentIds(ss)]}

(* _create_skill_based_chromosome: max(..., key=...) keeps the first best  *)
(* worker, and raises ValueError on an empty worker table                  *)
BestSkilled(ts, ss, task_id) ==
    ss[SetMin({i \in DOMAIN ss : \A j \in DOMAIN ss :
                calculate_skill_match(ts, ss, task_id, ss[j].id)
                    <= calculate_skill_match(ts, ss, task_id, ss[i].id)})].id

skill_based_chromosome(ts, ss, order) ==
    [k \in DOMAIN order |->
        <<order[k], BestSkilled(ts, ss, order[k]),
          StrClock(k, ClockAt(ts, order, k))>>]

SkillChromosomes(ts, ss) ==
    {skill_based_chromosome(ts, ss, order) : order \in Orders(TaskIds(ts))}

(* The chromosomes one construction attempt of a strategy may return       *)
(* (hybrid: random.random() < 0.3 picks the random construction)           *)
Chromosomes(ts, ss, strat) ==
    CASE strat = "random" -> RandomChromosomes(ts, ss)
      [] strat = "intelligent" -> {intelligent_chromosome(ts, ss)}
      [] strat = "hybrid" ->
            (IF RandomChoiceRaises(ts, ss) THEN {} ELSE RandomChromosomes(ts, ss))
                \cup {intelligent_chromosome(ts, ss)}
      [] strat = "dependency_based" -> DependencyChromosomes(ts, ss)
      [] strat = "skill_based" -> SkillChromosomes(ts, ss)

(* whether one construction attempt of a strategy may raise (IndexError of *)
(* random.choice, ValueError of max)                                       *)
AttemptMayRaise(ts, ss, strat) ==
    /\ strat \in {"random", "hybrid", "dependency_based", "skill_based"}
    /\ RandomChoiceRaises(ts, ss)

(* whether one construction attempt of a strategy may return *)
AttemptMayReturn(ts, ss, strat) ==
    strat \in {"intelligent", "hybrid"} \/ ~RandomChoiceRaises(ts, ss)

-----------------------------------------------------------------------------
(* create_population as a state machine: one action per iteration of the   *)
(* while loop of the selected _create_*_population                         *)

Strategies ==
    {"random", "intelligent", "hybrid", "dependency_based", "skill_based"}

(* line 36-39 (and 45-48, 54-60, 66-69, 75-78): one iteration *)
PopulationLoop(strat) ==
    /\ pc = "loop"
    /\ strategy = strat
    /\ Len(population) < population_size
    /\ attempts < MaxAttempts
    /\ attempts' = attempts + 1
    /\ \/ /\ AttemptMayRaise(tasks, students, strat)
          /\ pc' = "raised"
          /\ exc' = IF strat = "skill_based" THEN "ValueError" ELSE "IndexError"
          /\ UNCHANGED population
       \/ /\ AttemptMayReturn(tasks, students, strat)
          /\ \E chromosome \in Chromosomes(tasks, students, strat) :
                population' = IF chromosome # <<>>
                              THEN Append(population, chromosome)
                              ELSE population
          /\ UNCHANGED <<pc, exc>>
    /\ UNCHANGED <<tasks, students, harnessVars, strategy, population_size,
                   islandVars>>

CreateRandomPopulation == PopulationLoop("random")
CreateIntelligentPopulation == PopulationLoop("intelligent")
CreateHybridPopulation == PopulationLoop("hybrid")
CreateDependencyBasedPopulation == PopulationLoop("dependency_based")
CreateSkillBasedPopulation == PopulationLoop("skill_based")

(* the loop's exit: return population *)
ReturnPopulation ==
    /\ pc = "loop"
    /\ Len(population) >= population_size
    /\ pc' = "returned"
    /\ UNCHANGED <<tasks, students, harnessVars, initVars, islandVars>>

InitTaskTables ==
    {<<>>,
     <<MkTask("T1", 2, <<>>, EmptyMap)>>,
     <<MkTask("T1", 2, <<>>, EmptyMap), MkTask("T2", 2, <<"T1">>, [x |-> 1])>>,
     <<MkTask("T1", 1, <<"T2">>, EmptyMap), MkTask("T2", 2, <<>>, [x |-> 1]),
       MkTask("T3", 1, <<"T1", "T2">>, EmptyMap)>>}

InitStudentTables ==
    {<<>>,
     <<MkStudent("S1", EmptyMap)>>,
     <<MkStudent("S1", EmptyMap), MkStudent("S2", [x |-> 1])>>}

PopInit ==
    /\ tasks \in InitTaskTables
    /\ students \in InitStudentTables
    /\ op = "create_population"
    /\ arg = <<>>
    /\ res = [exc |-> "none", val |-> 0]
    /\ pc = "loop"
    /\ strategy \in Strategies
    /\ population_size \in 0..MaxPop
    /\ population = <<>>
    /\ attempts = 0
    /\ exc = "none"
    /\ IslandIdle

PopNext ==
    \/ CreateRandomPopulation
    \/ CreateIntelligentPopulation
    \/ CreateHybridPopulation
    \/ CreateDependencyBasedPopulation
    \/ CreateSkillBasedPopulation
    \/ ReturnPopulation

PopSpec == PopInit /\ [][PopNext]_vars

(* Properties of create_population, checked under PopSpec *)

(* C6: with zero workers and at least one task, create_population with a   *)
(* positive target size raises under each strategy: once the loop has run  *)
(* an iteration the call has raised, and it never returns a population.    *)
C6_ZeroWorkersRaises ==
    (students = <<>> /\ tasks # <<>> /\ population_size > 0)
        => /\ attempts >= 1 => pc = "raised"
           /\ pc # "returned"

(* C7: with at least one worker (the task table may be empty) and a target *)
(* size n >= 0, create_population terminates and returns exactly n         *)
(* solutions: nothing is raised, every iteration of the loop appends a     *)
(* solution (so the loop ends after n iterations), and the population      *)
(* returned holds n solutions.                                             *)
C7_TerminatesWithNSolutions ==
    students # <<>>
        => /\ pc # "raised"
           /\ attempts = Len(population)
           /\ pc = "returned" => Len(population) = population_size

-----------------------------------------------------------------------------
(* GeneticAlgorithm.get_fitness: the fitness cache is a function from      *)
(* solution keys (tuple(tuple(x) for x in solution): the content) to the   *)
(* value stored when the key was first seen                                *)

(* the value get_fitness returns under a cache *)
get_fitness(cache, sol) ==
    IF sol \in DOMAIN cache THEN cache[sol]
    ELSE calculate_fitness(tasks, students, sol).val

(* the cache after get_fitness was called on every solution of a set *)
CacheAfter(cache, sols) ==
    [k \in DOMAIN cache \cup sols |-> get_fitness(cache, k)]

-----------------------------------------------------------------------------
(* Selection.tournament_select *)

tournament_size == 3

(* random.sample draws min(tournament_size, len) distinct positions in a   *)
(* random order and min() keeps the first of minimal fitness: a position   *)
(* can win when enough other positions are not better than it              *)
TournamentWinners(cache, pop) ==
    LET k == IF Len(pop) < tournament_size THEN Len(pop) ELSE tournament_size
    IN  {p \in DOMAIN pop :
            Cardinality({q \in DOMAIN pop \ {p} :
                get_fitness(cache, pop[q]) >= get_fitness(cache, pop[p])}) >= k - 1}

(* min(self.tournament_size, len(population)) with a tournament of two *)
sample_size_two(len) == IF len < 2 THEN len ELSE 2

(* line 11: min(self.tournament_size, len(population)) *)
sample_size(len) == IF len < tournament_size THEN len ELSE tournament_size

(* line 11: random.sample(population, k): k distinct positions in a random *)
(* order                                                                   *)
Samples(len, k) ==
    {q \in [1..k -> 1..len] : \A i, j \in 1..k : i # j => q[i] # q[j]}

(* line 12: min(tournament, key=self.get_fitness) keeps the first element  *)
(* of minimal fitness                                                      *)
select(cache, pop, sample) ==
    pop[sample[SetMin({i \in DOMAIN sample :
            \A j \in DOMAIN sample :
                get_fitness(cache, pop[sample[i]])
                    <= get_fitness(cache, pop[sample[j]])})]]

-----------------------------------------------------------------------------
(* Crossover *)

(* parent[:k] and parent[k:] *)
Prefix(s, k) == SubSeq(s, 1, IF k < Len(s) THEN k ELSE Len(s))
Suffix(s, k) == SubSeq(s, k + 1, Len(s))
Middle(s, a, b) == SubSeq(s, a + 1, IF b < Len(s) THEN b ELSE Len(s))

(* single-point crossover without the length test of line 18, the cut      *)
(* drawn from 0..length                                                    *)
crossover_cut_anywhere(parent1, parent2) ==
    {<<Prefix(parent1, cp) \o Suffix(parent2, cp),
       Prefix(parent2, cp) \o Suffix(parent1, cp)>> :
        cp \in 0..Len(parent1)}

(* Crossover.crossover (single point): the pairs (child1, child2) it may   *)
(* return                                                                  *)
crossover(parent1, parent2) ==
    IF Len(parent1) <= 1 THEN {<<parent1, parent2>>}
    ELSE {<<Prefix(parent1, cp) \o Suffix(parent2, cp),
            Prefix(parent2, cp) \o Suffix(parent1, cp)>> :
            cp \in 1..(Len(parent1) - 1)}

(* Crossover.two_point_crossover *)
two_point_crossover(parent1, parent2) ==
    IF Len(parent1) <= 2 THEN {<<parent1, parent2>>}
    ELSE {<<Prefix(parent1, pts[1]) \o Middle(parent2, pts[1], pts[2])
                \o Suffix(parent1, pts[2]),
            Prefix(parent2, pts[1]) \o Middle(parent1, pts[1], pts[2])
                \o Suffix(parent2, pts[2])>> :
            pts \in {q \in (1..(Len(parent1) - 2)) \X (2..(Len(parent1) - 1)) :
                        q[1] + 1 <= q[2]}}

-----------------------------------------------------------------------------
(* Mutation *)

(* random.uniform(-a, a) for a = num / den, drawn from the integers of the *)
(* interval that are at most MaxDraw in size                               *)
UniformDraws(num, den) ==
    {k \in (0 - MaxDraw)..MaxDraw : k * den <= num /\ (0 - k) * den <= num}

(* str(x), without the max *)
StrClamp_unclamped(x) == <<"sf", x>>

(* str(max(0, x)): max keeps its first argument, the int 0, unless x > 0   *)
StrClamp(x) == IF x > 0 THEN <<"sf", x>> ELSE <<"si", 0>>

(* max(0, x), kept as a number *)
NumClamp(x) == IF x > 0 THEN <<"n", x>> ELSE <<"n", 0>>

(* Mutation.get_suitable_student: the workers random.choice may return     *)
SuitableStudents(ts, ss, task_id) ==
    LET req == TaskOf(ts, task_id).skill_requirements
        suitable == {ss[j].id : j \in {i \in DOMAIN ss :
                        DOMAIN req \subseteq DOMAIN ss[i].skills}}
    IN  IF suitable # {} THEN suitable ELSE StudentIds(ss)

SetStudent(sol, pos, s) == [sol EXCEPT ![pos] = <<@[1], s, @[3]>>]
SetStart(sol, pos, st) == [sol EXCEPT ![pos] = <<@[1], @[2], st>>]

(* 'swap_tasks' (Mutation line 65-72, LocalSearch._try_task_swap,          *)
(* SimulatedAnnealing._try_task_swap): two distinct positions exchange     *)
(* their workers; a solution shorter than 2 is left as it is               *)
SwapMoves(m) ==
    IF Len(m) < 2 THEN {m}
    ELSE {SetStudent(SetStudent(m, p[1], m[p[2]][2]), p[2], m[p[1]][2]) :
            p \in {q \in (DOMAIN m) \X (DOMAIN m) : q[1] # q[2]}}

(* 'reassign' (Mutation line 47-52, SimulatedAnnealing._try_reassignment)  *)
SuitableReassignMoves(ts, ss, m) ==
    UNION {{SetStudent(m, pos, s) : s \in SuitableStudents(ts, ss, m[pos][1])} :
            pos \in DOMAIN m}

(* 'adjust_time' (Mutation line 54-63, SimulatedAnnealing                  *)
(* ._try_time_adjustment): temperature_ratio is t10 / 10                   *)
StrAdjustMoves(ts, m, t10) ==
    UNION {{SetStart(m, pos, StrClamp(Float(m[pos][3]) + k)) :
                k \in UniformDraws(Duration(ts, m[pos][1]) * t10, 20)} :
            pos \in DOMAIN m}

(* shifting the start times of positions a..b by one shared offset *)
ShiftRun(m, a, b, k) ==
    [i \in DOMAIN m |->
        IF a <= i /\ i <= b
        THEN <<m[i][1], m[i][2], StrClamp(Float(m[i][3]) + k)>> ELSE m[i]]

(* 'shift_schedule' (Mutation line 74-88) *)
ShiftMoves(m, t10) ==
    IF Len(m) < 2 THEN {m}
    ELSE LET max_length == IF (2 * t10) \div 10 > 1 THEN (2 * t10) \div 10 ELSE 1
         IN  UNION {UNION {{ShiftRun(m, start_pos, start_pos + length - 1, k) :
                                k \in UniformDraws(2 * t10, 10)} :
                            length \in 1..(IF max_length < Len(m) - start_pos + 1
                                           THEN max_length
                                           ELSE Len(m) - start_pos + 1)} :
                    start_pos \in 1..(Len(m) - 1)}

(* one pass of the loop of line 35-88: the mutation type is drawn by       *)
(* random.choices; shift_schedule has weight 0 when temperature_ratio is   *)
(* at most 0.3                                                             *)
MutateOnce(ts, ss, m, t10) ==
    SuitableReassignMoves(ts, ss, m)
        \cup StrAdjustMoves(ts, m, t10)
        \cup SwapMoves(m)
        \cup (IF t10 > 3 THEN ShiftMoves(m, t10) ELSE {})

(* num_mutations = max(1, int(len(solution) * 0.1 * temperature_ratio))    *)
num_mutations(len, t10) ==
    IF (len * t10) \div 100 > 1 THEN (len * t10) \div 100 ELSE 1

RECURSIVE MutateTimes(_, _, _, _, _)
MutateTimes(ts, ss, ms, t10, n) ==
    IF n = 0 THEN ms
    ELSE MutateTimes(ts, ss, UNION {MutateOnce(ts, ss, m, t10) : m \in ms},
                     t10, n - 1)

(* Mutation.mutate: the values it may return (None for an empty input)     *)
mutate(ts, ss, solution, t10) ==
    IF solution = <<>> THEN {None}
    ELSE MutateTimes(ts, ss, {solution}, t10, num_mutations(Len(solution), t10))

-----------------------------------------------------------------------------
(* LocalSearch *)

(* _try_reassignment: random.choice over all workers *)
AnyReassignMoves(ss, m) ==
    {SetStudent(m, p[1], p[2]) : p \in (DOMAIN m) \X StudentIds(ss)}

(* _try_time_adjustment: max(0, start + adjustment) stays a number *)
NumAdjustMoves(ts, m) ==
    UNION {{SetStart(m, pos, NumClamp(Float(m[pos][3]) + k)) :
                k \in UniformDraws(Duration(ts, m[pos][1]), 2)} :
            pos \in DOMAIN m}

Fit(ts, ss, sol) == calculate_fitness(ts, ss, sol).val

(* a move that lets current_solution follow every candidate it tried *)
LSMove_follow_candidate(ts, ss, states, move) ==
    LET Moves(m) ==
            CASE move = "reassign" -> AnyReassignMoves(ss, m)
              [] move = "time" -> NumAdjustMoves(ts, m)
              [] move = "swap" -> SwapMoves(m)
    IN  UNION {{IF Fit(ts, ss, n) < st.best_fitness
                THEN [st EXCEPT !.cur = n, !.best = n,
                                !.best_fitness = Fit(ts, ss, n), !.improved = TRUE]
                ELSE [st EXCEPT !.cur = n] :
                    n \in Moves(st.cur)} :
               st \in states}

(* line 22-28 (and 31-37, 40-46): one neighbourhood move from every state  *)
(* of a set; a state is [cur, best, best_fitness, ni, improved] for        *)
(* current_solution, best_solution, best_fitness, no_improve_counter and   *)
(* improved                                                                *)
LSMove(ts, ss, states, move) ==
    LET Moves(m) ==
            CASE move = "reassign" -> AnyReassignMoves(ss, m)
              [] move = "time" -> NumAdjustMoves(ts, m)
              [] move = "swap" -> SwapMoves(m)
    IN  UNION {{[st EXCEPT !.cur = n, !.best = n,
                           !.best_fitness = Fit(ts, ss, n), !.improved = TRUE] :
                    n \in {c \in Moves(st.cur) : Fit(ts, ss, c) < st.best_fitness}}
               \cup (IF \E c \in Moves(st.cur) : ~(Fit(ts, ss, c) < st.best_fitness)
                     THEN {st} ELSE {}) :
               st \in states}

(* line 48-54: the counter and the break test that end an iteration *)
LSCount(st) == [st EXCEPT !.ni = IF st.improved THEN 0 ELSE @ + 1]

(* line 17-54: one iteration of the loop, from every running state *)
LSIteration(ts, ss, running) ==
    LET start == {[st EXCEPT !.improved = FALSE] : st \in running}
        m1 == LSMove(ts, ss, start, "reassign")
        m2 == LSMove(ts, ss, m1, "time")
        m3 == LSMove(ts, ss, m2, "swap")
    IN  {LSCount(st) : st \in m3}

(* the loop: the states it may end in, after at most k more iterations *)
RECURSIVE LSLoop(_, _, _, _, _, _)
LSLoop(ts, ss, running, done, k, max_no_improve) ==
    IF k = 0 \/ running = {} THEN done \cup running
    ELSE UNION {LSLoop(ts, ss, {st \in next : st.ni < max_no_improve},
                       done \cup {n \in next : n.ni >= max_no_improve},
                       k - 1, max_no_improve) :
                next \in {LSIteration(ts, ss, running)}}

(* line 12-15: the state before the first iteration *)
LSStart(ts, ss, solution) ==
    [cur |-> solution, best |-> solution,
     best_fitness |-> Fit(ts, ss, solution), ni |-> 0, improved |-> FALSE]

(* LocalSearch.improve_solution: the best solutions it may return *)
MaxLSIter == 3
local_search(ts, ss, solution, max_iterations, max_no_improve) ==
    {st.best :
        st \in LSLoop(ts, ss, {LSStart(ts, ss, solution)}, {},
                      IF max_iterations < MaxLSIter THEN max_iterations ELSE MaxLSIter,
                      max_no_improve)}

-----------------------------------------------------------------------------
(* SimulatedAnnealing *)

RECURSIVE Pow(_, _)
Pow(b, k) == IF k = 0 THEN 1 ELSE b * Pow(b, k - 1)

(* _get_neighbor in iteration k (0-based) under cooling rate 0.90:         *)
(* temp_ratio = 0.9^k; every operation keeps a positive weight.            *)
(* _try_time_adjustment draws from +-(duration * temp_ratio * 0.5) and     *)
(* stores str(max(0, start + adjustment)).                                 *)
SANeighbors(ts, ss, m, k) ==
    IF m = <<>> THEN {m}
    ELSE SuitableReassignMoves(ts, ss, m)
            \cup UNION {{SetStart(m, pos, StrClamp(Float(m[pos][3]) + d)) :
                            d \in UniformDraws(Duration(ts, m[pos][1]) * Pow(9, k),
                                               2 * Pow(10, k))} :
                        pos \in DOMAIN m}
            \cup SwapMoves(m)

(* line 169 and _acceptance_probability: an improving neighbour is always  *)
(* taken (1.0 > random()), one of equal finite cost too (exp(0) = 1.0); a  *)
(* worse one of finite cost is taken with a probability short of 1; with   *)
(* an infinite cost on either side exp() yields 0.0 or nan and the         *)
(* comparison fails                                                        *)
SAMayAccept(old_cost, new_cost) ==
    new_cost < old_cost \/ (old_cost < Inf /\ new_cost < Inf)
SAMayReject(old_cost, new_cost) ==
    ~(new_cost < old_cost)
        /\ (new_cost # old_cost \/ old_cost = Inf \/ new_cost = Inf)

(* an iteration that records every accepted neighbour as the best *)
SAIteration_best_is_current(ts, ss, st, k) ==
    LET cf == Fit(ts, ss, st.cur)
        Taken(n) ==
            [cur |-> n, best |-> n, best_fitness |-> Fit(ts, ss, n),
             ni |-> IF Fit(ts, ss, n) < st.best_fitness THEN 0 ELSE st.ni + 1]
    IN  {Taken(n) : n \in {c \in SANeighbors(ts, ss, st.cur, k) :
                            SAMayAccept(cf, Fit(ts, ss, c))}}
        \cup (IF \E c \in SANeighbors(ts, ss, st.cur, k) :
                    SAMayReject(cf, Fit(ts, ss, c))
              THEN {[st EXCEPT !.ni = @ + 1]} ELSE {})

(* line 145-193: one iteration from a state [cur, best, best_fitness, ni]  *)
SAIteration(ts, ss, st, k) ==
    LET cf == Fit(ts, ss, st.cur)
        Taken(n) ==
            IF Fit(ts, ss, n) < st.best_fitness
            THEN [cur |-> n, best |-> n, best_fitness |-> Fit(ts, ss, n), ni |-> 0]
            ELSE [st EXCEPT !.cur = n, !.ni = @ + 1]
    IN  {Taken(n) : n \in {c \in SANeighbors(ts, ss, st.cur, k) :
                            SAMayAccept(cf, Fit(ts, ss, c))}}
        \cup (IF \E c \in SANeighbors(ts, ss, st.cur, k) :
                    SAMayReject(cf, Fit(ts, ss, c))
              THEN {[st EXCEPT !.ni = @ + 1]} ELSE {})

sa_no_improve_limit == 50

(* the loop: iterations k, k+1, ... up to the limit; `cold` is the first   *)
(* iteration at which temperature < min_temp                               *)
RECURSIVE SALoop(_, _, _, _, _, _, _)
SALoop(ts, ss, running, done, k, limit, cold) ==
    IF k >= limit \/ k >= cold \/ running = {} THEN done \cup running
    ELSE UNION {SALoop(ts, ss, {st \in next : st.ni < sa_no_improve_limit},
                       done \cup {st \in next : st.ni >= sa_no_improve_limit},
                       k + 1, limit, cold) :
                next \in {UNION {SAIteration(ts, ss, st, k) : st \in running}}}

(* SimulatedAnnealing.improve_solution: the (best_solution, best_fitness)  *)
(* pairs it may return                                                     *)
MaxSAIter == 2
simulated_annealing(ts, ss, initial_solution, max_iterations, cold) ==
    {<<st.best, st.best_fitness>> :
        st \in SALoop(ts, ss,
                      {[cur |-> initial_solution, best |-> initial_solution,
                        best_fitness |-> Fit(ts, ss, initial_solution), ni |-> 0]},
                      {}, 0,
                      IF max_iterations < MaxSAIter THEN max_iterations ELSE MaxSAIter,
                      cold)}

-----------------------------------------------------------------------------
(* GeneticAlgorithm: an engine is the record                               *)
(*   [population_size, init_strategy, crossover_strategy, use_sa,          *)
(*    current_population, best_solution, best_solution_fitness,            *)
(*    fitness_cache]                                                       *)
(* (mutation_rate and crossover_rate lie strictly between 0 and 1 in every *)
(* configuration, so each random.random() < rate test may go either way).  *)

PopSize == 2

(* IslandModel._get_island_config; population_size is 50 in every preset   *)
(* and PopSize here                                                        *)
get_island_config(island_id) ==
    LET configs == <<
            [init_strategy |-> "intelligent", crossover_strategy |-> "single_point",
             use_sa |-> TRUE],
            [init_strategy |-> "intelligent", crossover_strategy |-> "two_point",
             use_sa |-> FALSE],
            [init_strategy |-> "hybrid", crossover_strategy |-> "single_point",
             use_sa |-> FALSE],
            [init_strategy |-> "hybrid", crossover_strategy |-> "single_point",
             use_sa |-> TRUE]>>
    IN  configs[(island_id % Len(configs)) + 1]

(* GeneticAlgorithm.__init__ *)
NewEngine(config) ==
    [population_size |-> PopSize,
     init_strategy |-> config.init_strategy,
     crossover_strategy |-> config.crossover_strategy,
     use_sa |-> config.use_sa,
     current_population |-> <<>>,
     best_solution |-> None,
     best_solution_fitness |-> Inf,
     fitness_cache |-> EmptyMap]

Range(s) == {s[i] : i \in DOMAIN s}

(* line 79-84 without the comparison of line 82 *)
EvaluateOne_latest(e, solution) ==
    [e EXCEPT !.fitness_cache = CacheAfter(@, {solution}),
              !.best_solution = solution,
              !.best_solution_fitness = get_fitness(e.fitness_cache, solution)]

(* line 79-84: one solution is scored and kept as best_solution when it   *)
(* is strictly better                                                      *)
EvaluateOne(e, solution) ==
    IF get_fitness(e.fitness_cache, solution) < e.best_solution_fitness
    THEN [e EXCEPT !.fitness_cache = CacheAfter(@, {solution}),
                   !.best_solution = solution,
                   !.best_solution_fitness = get_fitness(e.fitness_cache, solution)]
    ELSE [e EXCEPT !.fitness_cache = CacheAfter(@, {solution})]

(* line 76-84: the pass over the population, from position k on *)
RECURSIVE EvaluateFrom(_, _)
EvaluateFrom(e, k) ==
    IF k > Len(e.current_population) THEN e
    ELSE CHOOSE scored \in {EvaluateFrom(next, k + 1) :
                    next \in {EvaluateOne(e, e.current_population[k])}} : TRUE

(* line 102-121: the offspring pairs one pass of the while loop may make,  *)
(* each with the crossover it applied, if any                              *)
Offspring(e, cache, pop) ==
    LET W == {pop[p] : p \in TournamentWinners(cache, pop)}
        crossed == UNION {{[c |-> ch, par |-> pr] :
                            ch \in crossover(pr[1], pr[2])} : pr \in W \X W}
        AfterLS(x) ==
            {x.c} \cup (local_search(tasks, students, x.c[1], 20, 5)
                            \X local_search(tasks, students, x.c[2], 20, 5))
        bred == UNION {{[o1 |-> o[1], o2 |-> o[2],
                         xo |-> <<[parent1 |-> x.par[1], parent2 |-> x.par[2],
                                   child1 |-> x.c[1], child2 |-> x.c[2]]>>] :
                            o \in AfterLS(x)} : x \in crossed}
                \cup {[o1 |-> pr[1], o2 |-> pr[2], xo |-> <<>>] : pr \in W \X W}
    IN  UNION {{[b EXCEPT !.o1 = m[1], !.o2 = m[2]] :
                    m \in ({b.o1} \cup mutate(tasks, students, b.o1, 10))
                            \X ({b.o2} \cup mutate(tasks, students, b.o2, 10))} :
                b \in bred}

(* line 123-133: appending the pair and tracking the generation's best;    *)
(* st = [new_population, cache, generation_best, generation_best_fitness,  *)
(* xo]                                                                     *)
AppendPair(e, st, o) ==
    LET f1 == get_fitness(st.cache, o.o1)
        f2 == get_fitness(st.cache, o.o2)
    IN  [new_population |->
            IF Len(st.new_population) + 1 < e.population_size
            THEN st.new_population \o <<o.o1, o.o2>>
            ELSE Append(st.new_population, o.o1),
         cache |-> CacheAfter(st.cache, {o.o1, o.o2}),
         generation_best |->
            IF f2 < f1 /\ f2 < st.generation_best_fitness THEN o.o2
            ELSE IF f1 < st.generation_best_fitness THEN o.o1
            ELSE st.generation_best,
         generation_best_fitness |->
            IF f2 < f1 /\ f2 < st.generation_best_fitness THEN f2
            ELSE IF f1 < st.generation_best_fitness THEN f1
            ELSE st.generation_best_fitness,
         xo |-> st.xo \o o.xo]

(* line 101-133: one pass of the while loop from every state of a set *)
ReproduceStep(e, pop, states) ==
    UNION {IF Len(st.new_population) < e.population_size
           THEN {AppendPair(e, st, o) : o \in Offspring(e, st.cache, pop)}
           ELSE {st} :
           st \in states}

(* line 101-133: the while loop *)
RECURSIVE Reproduce(_, _, _)
Reproduce(e, pop, states) ==
    IF \A st \in states : Len(st.new_population) >= e.population_size THEN states
    ELSE UNION {Reproduce(e, pop, next) : next \in {ReproduceStep(e, pop, states)}}

(* line 147-148 with the index of the first individual *)
WorstIndex_first(cache, pop) == 1

(* line 147-148: max(range(len(new_population)), key=...) keeps the first  *)
(* index of maximal fitness                                                *)
WorstIndex(cache, pop) ==
    SetMin({i \in DOMAIN pop :
        \A j \in DOMAIN pop : get_fitness(cache, pop[j]) <= get_fitness(cache, pop[i])})

(* line 136-149: the simulated annealing run on the generation's best (50  *)
(* iterations from temperature 100 cooled by 0.90 never get below 0.1)     *)
sa_max_iterations == 50
sa_cold_iteration == 66
InjectSA(e, st, sa) ==
    IF sa[2] < st.generation_best_fitness
    THEN [st EXCEPT !.new_population[WorstIndex(st.cache, st.new_population)] = sa[1]]
    ELSE st

(* line 135-149 after the while loop left the states `reproduced` *)
AfterSA(e, reproduced) ==
    IF ~e.use_sa THEN reproduced
    ELSE {st \in reproduced : st.generation_best = None}
         \cup UNION {{InjectSA(e, st, sa) :
                        st \in {r \in reproduced : r.generation_best = best},
                        sa \in simulated_annealing(tasks, students, best,
                                    sa_max_iterations, sa_cold_iteration)} :
                    best \in {r.generation_best : r \in reproduced} \ {None}}

(* GeneticAlgorithm.evolve_population *)
evolve_population(e, pop) ==
    UNION {AfterSA(e, reproduced) :
        reproduced \in {Reproduce(e, pop,
            {[new_population |-> <<>>, cache |-> e.fitness_cache,
              generation_best |-> None, generation_best_fitness |-> Inf,
              xo |-> <<>>]})}}

(* GeneticAlgorithm.evolve_generation: the engines it may leave, each with *)
(* the crossovers it applied                                               *)
evolve_generation(e) ==
    UNION {{[engine |-> [scored EXCEPT !.current_population = st.new_population,
                                       !.fitness_cache = st.cache],
             xo |-> st.xo] :
                st \in evolve_population(scored, scored.current_population)} :
            scored \in {EvaluateFrom(e, 1)}}

-----------------------------------------------------------------------------
(* IslandModel *)

MaxIslands == 2
MaxGen == 3
MaxInterval == 2
MaxMigrants == 2

(* range(100) of line 44 *)
generations == 100
LastGeneration == (IF generations < MaxGen THEN generations ELSE MaxGen) - 1

RECURSIVE SeqsOf(_, _)
SeqsOf(S, n) ==
    IF n = 0 THEN {<<>>}
    ELSE {Append(q, x) : q \in SeqsOf(S, n - 1), x \in S}

(* PopulationInitializer.create_population run to its return, for a        *)
(* Problem under which no construction attempt raises: the populations it  *)
(* may return                                                              *)
create_population(ts, ss, strat, n) ==
    SeqsOf({c \in Chromosomes(ts, ss, strat) : c # <<>>}, n)

(* sorted(pop, key=get_fitness, reverse=...): the sort is stable, also     *)
(* when reversed                                                           *)
SortedByFitness(cache, pop, reverse) ==
    LET Before(q, p) ==
            \/ (IF reverse THEN get_fitness(cache, pop[q]) > get_fitness(cache, pop[p])
                ELSE get_fitness(cache, pop[q]) < get_fitness(cache, pop[p]))
            \/ (get_fitness(cache, pop[q]) = get_fitness(cache, pop[p]) /\ q < p)
        Rank(p) == Cardinality({q \in DOMAIN pop : Before(q, p)})
    IN  [k \in DOMAIN pop |-> pop[CHOOSE p \in DOMAIN pop : Rank(p) = k - 1]]

(* line 105-106 *)
Migrants(cache, source_pop, size) ==
    Prefix(SortedByFitness(cache, source_pop, FALSE), size)

(* line 117-120 with migrant j written at position j of the destination *)
Replace_by_rank(dest_pop, sorted_dest, migrants, j) ==
    [pop |-> [p \in DOMAIN dest_pop |->
                IF p <= Len(migrants) THEN migrants[p] ELSE dest_pop[p]],
     exc |-> "none"]

(* line 117-120 with the migrants added to the destination instead of      *)
(* written over its worst individuals                                      *)
Replace_appending(dest_pop, sorted_dest, migrants, j) ==
    [pop |-> dest_pop \o migrants, exc |-> "none"]

(* line 117-120: migrant j (from j on) overwrites the first position whose *)
(* content equals sorted_dest[j]; list.index raises ValueError when there  *)
(* is none                                                                 *)
RECURSIVE Replace(_, _, _, _)
Replace(dest_pop, sorted_dest, migrants, j) ==
    IF j > Len(migrants) THEN [pop |-> dest_pop, exc |-> "none"]
    ELSE IF j > Len(sorted_dest)
        THEN Replace(dest_pop, sorted_dest, migrants, j + 1)
    ELSE IF \A idx \in DOMAIN dest_pop : dest_pop[idx] # sorted_dest[j]
        THEN [pop |-> dest_pop, exc |-> "ValueError"]
    ELSE LET idx == SetMin({k \in DOMAIN dest_pop : dest_pop[k] = sorted_dest[j]})
         IN  Replace([dest_pop EXCEPT ![idx] = migrants[j]],
                     sorted_dest, migrants, j + 1)

(* line 70 with the test made on the number of generations finished *)
MigrationDue_after_count(g, interval) == (g + 1) % interval = 0

(* line 70 *)
MigrationDue(g, interval) == g % interval = 0

(* IslandModel.__init__ *)
NewIslands(num_islands) ==
    [k \in 1..num_islands |-> NewEngine(get_island_config(k - 1))]

(* the Problem of the island runs: the Intelligent strategy assigns T1 to  *)
(* S1 (skill match -2 for both workers, the first wins) although S2 leaves *)
(* the smaller skill gap                                                   *)
IslandTasks == <<MkTask("T1", 1, <<>>, [x |-> 3, y |-> 1])>>
IslandStudents ==
    <<MkStudent("S1", [x |-> 0, y |-> 1]), MkStudent("S2", [x |-> 2, y |-> 0])>>

IslandInit ==
    /\ tasks = IslandTasks
    /\ students = IslandStudents
    /\ op = "run"
    /\ arg = <<>>
    /\ res = [exc |-> "none", val |-> 0]
    /\ pc = "initialize"
    /\ InitializerIdle
    /\ \E num_islands \in 1..MaxIslands :
        /\ islands = NewIslands(num_islands)
        /\ steps_done = [k \in 1..num_islands |-> 0]
    /\ migration_interval \in 1..MaxInterval
    /\ migration_size \in 1..MaxMigrants
    /\ best_solution = None
    /\ best_solution_fitness = Inf
    /\ generation = 0
    /\ island_index = 0
    /\ last_crossover = <<>>
    /\ round = NoRound
    /\ rounds = {}

(* the for statements of line 39, 48 and 94 moving on to the next island   *)
(* or, past the last one, to the statement after the loop                  *)
NextIsland(after) ==
    IF island_index + 1 < Len(islands)
    THEN island_index' = island_index + 1 /\ pc' = pc
    ELSE island_index' = 0 /\ pc' = after

(* line 39-41 *)
InitializeIsland ==
    /\ pc = "initialize"
    /\ LET island == islands[island_index + 1]
       IN  \E pop \in create_population(tasks, students, island.init_strategy,
                                        island.population_size) :
                islands' = [islands EXCEPT ![island_index + 1].current_population = pop]
    /\ NextIsland("evolve")
    /\ UNCHANGED <<tasks, students, harnessVars, initVars, migration_interval,
                   migration_size, best_solution, best_solution_fitness,
                   generation, historyVars>>

(* line 58-60 without the comparison *)
GlobalBest_latest(island, best, best_fitness) ==
    <<island.best_solution, island.best_solution_fitness>>

(* line 58-60 *)
GlobalBest(island, best, best_fitness) ==
    IF island.best_solution_fitness < best_fitness
    THEN <<island.best_solution, island.best_solution_fitness>>
    ELSE <<best, best_fitness>>

(* line 48-61 with one fitness cache shared by all islands *)
EvolveIsland_shared_cache ==
    /\ pc = "evolve"
    /\ islands[island_index + 1].current_population # <<>>
    /\ \E out \in evolve_generation(islands[island_index + 1]) :
        LET island == [out.engine EXCEPT !.fitness_cache =
                            CacheAfter(@, Range(out.engine.current_population))]
            best == GlobalBest(island, best_solution, best_solution_fitness)
        IN  /\ islands' = [k \in DOMAIN islands |->
                            IF k = island_index + 1 THEN island
                            ELSE [islands[k] EXCEPT !.fitness_cache =
                                        island.fitness_cache]]
            /\ best_solution' = best[1]
            /\ best_solution_fitness' = best[2]
            /\ last_crossover' = out.xo
    /\ steps_done' = [steps_done EXCEPT ![island_index + 1] = @ + 1]
    /\ NextIsland("check_migration")
    /\ UNCHANGED <<tasks, students, harnessVars, initVars, migration_interval,
                   migration_size, generation, round, rounds>>

(* line 48-61: one island's generation step *)
EvolveIsland ==
    /\ pc = "evolve"
    /\ islands[island_index + 1].current_population # <<>>
    /\ \E out \in evolve_generation(islands[island_index + 1]) :
        LET island == [out.engine EXCEPT !.fitness_cache =
                            CacheAfter(@, Range(out.engine.current_population))]
            best == GlobalBest(island, best_solution, best_solution_fitness)
        IN  /\ islands' = [islands EXCEPT ![island_index + 1] = island]
            /\ best_solution' = best[1]
            /\ best_solution_fitness' = best[2]
            /\ last_crossover' = out.xo
    /\ steps_done' = [steps_done EXCEPT ![island_index + 1] = @ + 1]
    /\ NextIsland("check_migration")
    /\ UNCHANGED <<tasks, students, harnessVars, initVars, migration_interval,
                   migration_size, generation, round, rounds>>

(* the for statement of line 44 moving on *)
NextGeneration ==
    IF generation < LastGeneration
    THEN generation' = generation + 1 /\ pc' = "evolve"
    ELSE generation' = generation /\ pc' = "done"

(* line 70-71: the round begins *)
StartMigration ==
    /\ pc = "check_migration"
    /\ MigrationDue(generation, migration_interval)
    /\ pc' = "migrate"
    /\ round' = [NoRound EXCEPT
                    !.g = generation,
                    !.started = steps_done,
                    !.pre = [k \in DOMAIN islands |-> islands[k].current_population]]
    /\ UNCHANGED <<tasks, students, harnessVars, initVars, islands, modelVars,
                   steps_done, last_crossover, rounds>>

(* line 70: no round after this generation *)
SkipMigration ==
    /\ pc = "check_migration"
    /\ ~MigrationDue(generation, migration_interval)
    /\ NextGeneration
    /\ UNCHANGED <<tasks, students, harnessVars, initVars, islands,
                   migration_interval, migration_size, best_solution,
                   best_solution_fitness, island_index, historyVars>>

(* line 94-120: one pass of the loop of _migrate_solutions, the transfer   *)
(* out of island i                                                         *)
MigrateSolutions ==
    /\ pc = "migrate"
    /\ LET source == island_index + 1
           dest == ((island_index + 1) % Len(islands)) + 1
           source_pop == islands[source].current_population
           dest_pop == islands[dest].current_population
           last == island_index + 1 >= Len(islands)
       IN  \E read \in {[islands EXCEPT ![source].fitness_cache =
                                CacheAfter(@, Range(source_pop))]} :
           \E dest_cache \in {CacheAfter(read[dest].fitness_cache, Range(dest_pop))} :
           \E migrants \in {Migrants(read[source].fitness_cache, source_pop,
                                     migration_size)} :
           \E placed \in {Replace(dest_pop,
                                  SortedByFitness(dest_cache, dest_pop, TRUE),
                                  migrants, 1)} :
            /\ IF source_pop = <<>> THEN islands' = islands
               ELSE IF dest_pop = <<>> THEN islands' = read
               ELSE islands' = [read EXCEPT ![dest].fitness_cache = dest_cache,
                                            ![dest].current_population = placed.pop]
            /\ round' = [round EXCEPT
                    !.source_at = Append(@, source_pop),
                    !.sent = Append(@, migrants),
                    !.dest = Append(@, dest),
                    !.dest_before = Append(@, dest_pop),
                    !.dest_after = Append(@, placed.pop)]
            /\ IF placed.exc # "none" /\ source_pop # <<>> /\ dest_pop # <<>>
               THEN /\ pc' = "raised"
                    /\ exc' = placed.exc
                    /\ UNCHANGED <<island_index, generation, rounds>>
               ELSE /\ exc' = exc
                    /\ rounds' = IF last THEN rounds \cup {generation} ELSE rounds
                    /\ IF last THEN island_index' = 0 /\ NextGeneration
                       ELSE /\ island_index' = island_index + 1
                            /\ UNCHANGED <<pc, generation>>
    /\ UNCHANGED <<tasks, students, harnessVars, strategy, population_size,
                   population, attempts, migration_interval, migration_size,
                   best_solution, best_solution_fitness, steps_done,
                   last_crossover>>

(* line 87 *)
Return ==
    /\ pc = "done"
    /\ pc' = "returned"
    /\ res' = [exc |-> "none", val |-> <<best_solution, best_solution_fitness>>]
    /\ UNCHANGED <<tasks, students, op, arg, initVars, islandVars>>

IslandNext ==
    \/ InitializeIsland
    \/ EvolveIsland
    \/ StartMigration
    \/ SkipMigration
    \/ MigrateSolutions
    \/ Return

IslandSpec == IslandInit /\ [][IslandNext]_vars

(* Properties of IslandModel.run, checked under IslandSpec *)

(* C1: in a migration round the migrants every island sends are the top    *)
(* migration_size individuals of the population that island had when the   *)
(* round began, so nothing received in the round is forwarded in it.       *)
C1_MigrantsFromSnapshot ==
    \A k \in DOMAIN round.sent :
        round.sent[k] = Migrants(EmptyMap, round.pre[k], migration_size)

(* C2: after a transfer the destination has the size it had, and at least  *)
(* min(migration_size, source size) of its individuals are no worse than   *)
(* the worst individual the transfer replaced.                             *)
C2_MigrantsNoWorse ==
    \A k \in DOMAIN round.dest_after :
        LET before == round.dest_before[k]
            after == round.dest_after[k]
            m == IF migration_size < Len(round.source_at[k])
                 THEN migration_size ELSE Len(round.source_at[k])
            worst == SetMax({Fit(tasks, students, before[p]) : p \in DOMAIN before})
        IN  /\ Len(after) = Len(before)
            /\ Cardinality({p \in DOMAIN after :
                    Fit(tasks, students, after[p]) <= worst}) >= m

(* C9: a migration round follows generation g exactly when                 *)
(* g mod migration_interval = 0; it begins when every island has finished  *)
(* generation g, and no island starts generation g+1 before the round's    *)
(* last transfer is done.                                                  *)
C9_MigrationSchedule ==
    /\ \A g \in 0..LastGeneration :
            (g < generation \/ pc \in {"done", "returned"})
                => (g \in rounds <=> g % migration_interval = 0)
    /\ \A g \in rounds : g <= generation /\ g % migration_interval = 0
    /\ pc = "migrate" =>
            /\ generation % migration_interval = 0
            /\ round.g = generation
            /\ \A k \in DOMAIN islands : steps_done[k] = generation + 1
    /\ round.g >= 0 =>
            /\ \A k \in DOMAIN islands : round.started[k] = round.g + 1
            /\ \A k \in DOMAIN islands :
                    steps_done[k] > round.g + 1 => round.g \in rounds

C9_Witness ==
    /\ pc = "done"
    /\ migration_interval = 2
    /\ rounds = {0, 2}
    /\ Len(islands) = 2

(* C10: after every island step the model's best_solution_fitness is the   *)
(* least best_solution_fitness of the islands that have stepped, the       *)
(* stored best_solution has that fitness, and the value never increases.   *)
C10_BestIsMinimum ==
    /\ best_solution_fitness =
            SetMin({Inf} \cup {islands[k].best_solution_fitness :
                                k \in {j \in DOMAIN islands : steps_done[j] > 0}})
    /\ IF best_solution = None THEN best_solution_fitness = Inf
       ELSE Fit(tasks, students, best_solution) = best_solution_fitness

C10_GlobalBest ==
    /\ []C10_BestIsMinimum
    /\ [][best_solution_fitness' <= best_solution_fitness]_vars

C10_Witness ==
    \E k \in DOMAIN islands :
        /\ steps_done[k] > 1
        /\ best_solution_fitness < islands[k].best_solution_fitness

-----------------------------------------------------------------------------
(* One engine configured as an island of the model and stepped as          *)
(* IslandModel.run steps it: initialize_population, then evolve_generation *)
(* once per generation                                                     *)

MaxIslandId == 3
MaxEngineGen == 2
(* generation steps of an engine whose initial population mixes random and *)
(* intelligent chromosomes                                                 *)
MaxHybridGen == 1

EngineTasks ==
    <<MkTask("T1", 1, <<>>, EmptyMap), MkTask("T2", 1, <<"T1">>, [x |-> 1])>>
EngineStudents == <<MkStudent("S1", EmptyMap), MkStudent("S2", [x |-> 1])>>

(* two independent tasks of equal duration and one worker: chromosomes in  *)
(* either task order have the same fitness                                 *)
TwinTasks ==
    <<MkTask("T1", 1, <<>>, EmptyMap), MkTask("T2", 1, <<>>, EmptyMap)>>
TwinStudents == <<MkStudent("S1", EmptyMap)>>
EngineProblems ==
    {<<EngineTasks, EngineStudents>>, <<TwinTasks, TwinStudents>>}

EngineInit ==
    /\ \E p \in EngineProblems : tasks = p[1] /\ students = p[2]
    /\ op = "evolve_generation"
    /\ arg = <<>>
    /\ res = [exc |-> "none", val |-> 0]
    /\ pc = "engine"
    /\ InitializerIdle
    /\ \E island_id \in 0..MaxIslandId :
        islands = <<NewEngine(get_island_config(island_id))>>
    /\ migration_interval = 1
    /\ migration_size = 1
    /\ best_solution = None
    /\ best_solution_fitness = Inf
    /\ generation = 0
    /\ island_index = 0
    /\ steps_done = <<0>>
    /\ last_crossover = <<>>
    /\ round = NoRound
    /\ rounds = {}

(* GeneticAlgorithm.initialize_population *)
InitializePopulation ==
    /\ pc = "engine"
    /\ islands[1].current_population = <<>>
    /\ \E pop \in create_population(tasks, students, islands[1].init_strategy,
                                    islands[1].population_size) :
            islands' = [islands EXCEPT ![1].current_population = pop]
    /\ UNCHANGED <<tasks, students, harnessVars, pc, initVars, modelVars,
                   historyVars>>

(* GeneticAlgorithm.evolve_generation *)
EvolveGeneration ==
    /\ pc = "engine"
    /\ islands[1].current_population # <<>>
    /\ generation < (IF islands[1].init_strategy = "hybrid"
                     THEN MaxHybridGen ELSE MaxEngineGen)
    /\ \E out \in evolve_generation(islands[1]) :
        /\ islands' = <<out.engine>>
        /\ last_crossover' = out.xo
    /\ generation' = generation + 1
    /\ steps_done' = [steps_done EXCEPT ![1] = @ + 1]
    /\ UNCHANGED <<tasks, students, harnessVars, pc, initVars, migration_interval,
                   migration_size, best_solution, best_solution_fitness,
                   island_index, round, rounds>>

EngineNext ==
    \/ InitializePopulation
    \/ EvolveGeneration

EngineSpec == EngineInit /\ [][EngineNext]_vars

(* Properties of an engine's generation step, checked under EngineSpec *)

(* C8: every crossover of an engine configured with 'two_point' is a       *)
(* two-point crossover of the two parents, and every crossover of one      *)
(* configured with 'single_point' is a single-point crossover of them.     *)
C8_ConfiguredCrossover ==
    \A k \in DOMAIN last_crossover :
        LET x == last_crossover[k]
        IN  /\ islands[1].crossover_strategy = "two_point"
                => <<x.child1, x.child2>> \in two_point_crossover(x.parent1, x.parent2)
            /\ islands[1].crossover_strategy = "single_point"
                => <<x.child1, x.child2>> \in crossover(x.parent1, x.parent2)

-----------------------------------------------------------------------------
(* validate_schedule *)

(* line 213-217: the loop over the dependencies of a task; it stops with   *)
(* ok = FALSE at a dependency that has no start time yet, and otherwise    *)
(* moves the start time to the latest end of a dependency                  *)
RECURSIVE VSDependencies(_, _, _, _, _)
VSDependencies(ts, task_start_times, deps, start_time, k) ==
    IF k > Len(deps) THEN [ok |-> TRUE, start_time |-> start_time]
    ELSE IF deps[k] \notin DOMAIN task_start_times
        THEN [ok |-> FALSE, start_time |-> start_time]
    ELSE \* max(start_time, dep_end_time)
        LET dep_end_time == task_start_times[deps[k]] + Duration(ts, deps[k])
        IN  VSDependencies(ts, task_start_times, deps,
                IF dep_end_time > start_time THEN dep_end_time ELSE start_time,
                k + 1)

(* line 220-225: the loop over the busy intervals of the worker *)
RECURSIVE VSFirstSlot(_, _, _, _)
VSFirstSlot(start_time, duration, busy, k) ==
    IF k > Len(busy) THEN start_time
    ELSE IF start_time < busy[k][2]
        THEN IF start_time + duration <= busy[k][1] THEN start_time
             ELSE VSFirstSlot(busy[k][2], duration, busy, k + 1)
    ELSE VSFirstSlot(start_time, duration, busy, k + 1)

(* line 233-236: no interval of a timeline ends after the next one starts *)
VSNoOverlap(student_timelines) ==
    \A s \in DOMAIN student_timelines :
        \A i \in 1..(Len(student_timelines[s]) - 1) :
            ~(student_timelines[s][i][2] > student_timelines[s][i + 1][1])

(* line 211-230: the pass over the solution from its k-th assignment on,   *)
(* then the check of line 233-238; tasks[task_id] and                      *)
(* student_timelines[student_id] raise KeyError for unknown ids            *)
RECURSIVE VSPass(_, _, _, _, _, _)
VSPass(ts, ss, solution, k, task_start_times, student_timelines) ==
    IF k > Len(solution)
    THEN [exc |-> "none", val |-> VSNoOverlap(student_timelines)]
    ELSE IF solution[k][1] \notin TaskIds(ts)
        THEN [exc |-> "KeyError", val |-> FALSE]
    ELSE CHOOSE r \in
        {IF ~d.ok THEN [exc |-> "none", val |-> FALSE]
         ELSE IF solution[k][2] \notin StudentIds(ss)
             THEN [exc |-> "KeyError", val |-> FALSE]
         ELSE CHOOSE r2 \in
            {VSPass(ts, ss, solution, k + 1,
                [t \in DOMAIN task_start_times \cup {solution[k][1]} |->
                    IF t = solution[k][1] THEN start_time ELSE task_start_times[t]],
                [student_timelines EXCEPT ![solution[k][2]] =
                    SortPairs(Append(@,
                        <<start_time, start_time + Duration(ts, solution[k][1])>>))]) :
             start_time \in {VSFirstSlot(d.start_time, Duration(ts, solution[k][1]),
                                         student_timelines[solution[k][2]], 1)}} : TRUE :
         d \in {VSDependencies(ts, task_start_times,
                               TaskOf(ts, solution[k][1]).dependencies,
                               Float(solution[k][3]), 1)}} : TRUE

(* validate_schedule(tasks, students, solution) *)
validate_schedule(ts, ss, solution) ==
    VSPass(ts, ss, solution, 1, EmptyMap, [s \in StudentIds(ss) |-> <<>>])

-----------------------------------------------------------------------------
(* Operator harness: the Problem is drawn from a bounded set, then one     *)
(* operator is applied to inputs drawn from bounded sets; op names the     *)
(* operator, arg holds its inputs and res what it returned or raised.      *)

OperatorProblems ==
    {<<EngineTasks, EngineStudents>>,
     <<<<MkTask("T1", 2, <<>>, EmptyMap)>>, <<MkStudent("S1", EmptyMap)>>>>,
     <<<<MkTask("T1", 2, <<>>, EmptyMap), MkTask("T2", 1, <<"T1">>, EmptyMap)>>,
       <<MkStudent("S1", EmptyMap), MkStudent("S2", EmptyMap)>>>>,
     <<<<MkTask("T1", 1, <<>>, EmptyMap)>>, <<>>>>,
     <<<<MkTask("T1", 3, <<>>, EmptyMap), MkTask("T2", 1, <<>>, EmptyMap),
         MkTask("T3", 1, <<>>, EmptyMap)>>,
       <<MkStudent("S1", EmptyMap), MkStudent("S2", EmptyMap)>>>>}

OperatorInit ==
    /\ \E p \in OperatorProblems :
        /\ tasks = p[1]
        /\ students = p[2]
    /\ op = "none"
    /\ arg = <<>>
    /\ res = [exc |-> "none", val |-> 0]
    /\ pc = "operator"
    /\ InitializerIdle
    /\ IslandIdle

(* SimulatedAnnealing.improve_solution(initial_solution, max_iterations,   *)
(* initial_temp, cooling_rate, min_temp): line 129 lets an exception of    *)
(* calculate_fitness through; the temperature parameters fix `cold`, the   *)
(* first iteration that finds temperature < min_temp                       *)
SAImproveSolution ==
    /\ pc = "operator"
    /\ op = "none"
    /\ op' = "SimulatedAnnealing.improve_solution"
    /\ \E s \in SolutionsUpTo(MaxLen), mi \in 0..MaxSAIter, cold \in 0..MaxSAIter :
        /\ arg' = [initial_solution |-> s, max_iterations |-> mi, cold |-> cold]
        /\ \E f \in {calculate_fitness(tasks, students, s)} :
            IF f.exc # "none" THEN res' = f
            ELSE \E r \in simulated_annealing(tasks, students, s, mi, cold) :
                    res' = [exc |-> "none", val |-> r]
    /\ UNCHANGED <<tasks, students, pc, initVars, islandVars>>

(* LocalSearch.improve_solution(solution, max_iterations, max_no_improve), *)
(* followed through its loop: pc is "ls_for" at the head of the loop,      *)
(* "ls_time" and "ls_swap" before the second and third move, "ls_break"    *)
(* at the break, and res holds the local variables with the iteration      *)
(* count.  Line 12-15: the initial evaluation raises or sets the state.    *)
MaxNoImprove == 2
LSPositions == {"ls_for", "ls_time", "ls_swap", "ls_break"}

LSImproveSolution ==
    /\ pc = "operator"
    /\ op = "none"
    /\ op' = "LocalSearch.improve_solution"
    /\ \E s \in SolutionsUpTo(MaxLen), mi \in 0..MaxLSIter, mni \in 0..MaxNoImprove :
        /\ arg' = [solution |-> s, max_iterations |-> mi, max_no_improve |-> mni]
        /\ \E f \in {calculate_fitness(tasks, students, s)} :
            IF f.exc # "none"
            THEN res' = f /\ pc' = "raised"
            ELSE /\ res' = [st |-> LSStart(tasks, students, s), iteration |-> 0]
                 /\ pc' = "ls_for"
    /\ UNCHANGED <<tasks, students, initVars, islandVars>>

(* line 19-28: improved = False and the reassignment move *)
LSTryReassignment ==
    /\ pc = "ls_for"
    /\ res.iteration < arg.max_iterations
    /\ \E st \in LSMove(tasks, students, {[res.st EXCEPT !.improved = FALSE]},
                        "reassign") :
            res' = [res EXCEPT !.st = st]
    /\ pc' = "ls_time"
    /\ UNCHANGED <<tasks, students, op, arg, initVars, islandVars>>

(* line 31-37: the time adjustment move *)
LSTryTimeAdjustment ==
    /\ pc = "ls_time"
    /\ \E st \in LSMove(tasks, students, {res.st}, "time") :
            res' = [res EXCEPT !.st = st]
    /\ pc' = "ls_swap"
    /\ UNCHANGED <<tasks, students, op, arg, initVars, islandVars>>

(* line 40-54: the swap move, the counter and the break test *)
LSTryTaskSwap ==
    /\ pc = "ls_swap"
    /\ \E st \in LSMove(tasks, students, {res.st}, "swap") :
        /\ res' = [st |-> LSCount(st), iteration |-> res.iteration + 1]
        /\ pc' = IF LSCount(st).ni >= arg.max_no_improve
                 THEN "ls_break" ELSE "ls_for"
    /\ UNCHANGED <<tasks, students, op, arg, initVars, islandVars>>

(* line 56: return best_solution, best_fitness *)
LSReturn ==
    /\ \/ pc = "ls_break"
       \/ pc = "ls_for" /\ res.iteration >= arg.max_iterations
    /\ res' = [exc |-> "none", val |-> <<res.st.best, res.st.best_fitness>>]
    /\ pc' = "returned"
    /\ UNCHANGED <<tasks, students, op, arg, initVars, islandVars>>

(* validate_schedule(tasks, students, solution) *)
ValidateSchedule ==
    /\ pc = "operator"
    /\ op = "none"
    /\ op' = "validate_schedule"
    /\ \E s \in SolutionsUpTo(MaxLen) :
        /\ arg' = [solution |-> s]
        /\ res' = validate_schedule(tasks, students, s)
    /\ UNCHANGED <<tasks, students, pc, initVars, islandVars>>

(* FitnessCalculator.calculate_fitness(solution) *)
MaxFitLen == 3
FitnessOfSolution ==
    /\ pc = "operator"
    /\ op = "none"
    /\ op' = "FitnessCalculator.calculate_fitness"
    /\ \E s \in SolutionsUpTo(MaxFitLen) :
        /\ arg' = [solution |-> s]
        /\ res' = calculate_fitness(tasks, students, s)
    /\ UNCHANGED <<tasks, students, pc, initVars, islandVars>>

(* Selection.tournament_select(population): the population is drawn from  *)
(* four individuals, two of them permutations of each other; min() raises  *)
(* ValueError on the empty tournament and lets an exception of             *)
(* calculate_fitness through                                               *)
MaxTournamentPop == 4
TournamentIndividuals ==
    {<<<<"T1", "S1", <<"si", 0>>>>, <<"T2", "S2", <<"sf", 1>>>>>>,
     <<<<"T2", "S2", <<"sf", 1>>>>, <<"T1", "S1", <<"si", 0>>>>>>,
     <<<<"T1", "S1", <<"si", 0>>>>, <<"T2", "S1", <<"si", 0>>>>>>,
     <<<<"T1", "S1", <<"si", 0>>>>>>}

TournamentSelect ==
    /\ pc = "operator"
    /\ op = "none"
    /\ op' = "Selection.tournament_select"
    /\ \E n \in 0..MaxTournamentPop :
       \E pop \in [1..n -> TournamentIndividuals] :
       \E sample \in Samples(n, sample_size(n)) :
        /\ arg' = [population |-> pop, sample |-> sample]
        /\ res' =
            IF sample = <<>> THEN [exc |-> "ValueError", val |-> None]
            ELSE IF \E i \in DOMAIN sample :
                        calculate_fitness(tasks, students, pop[sample[i]]).exc # "none"
                THEN [exc |-> "KeyError", val |-> None]
            ELSE [exc |-> "none", val |-> select(EmptyMap, pop, sample)]
    /\ UNCHANGED <<tasks, students, pc, initVars, islandVars>>

(* the parents of the crossover operators: equal-length sequences of up to *)
(* MaxParentLen genes drawn from two genes                                 *)
MaxParentLen == 4
ParentGenes ==
    {<<"T1", "S1", <<"si", 0>>>>, <<"T2", "S2", <<"sf", 1>>>>}

(* Crossover.crossover(parent1, parent2); res also holds the parents as    *)
(* they are when it returns: the operator only reads them (deepcopy and    *)
(* slices build new lists)                                                 *)
SinglePointCrossover ==
    /\ pc = "operator"
    /\ op = "none"
    /\ op' = "Crossover.crossover"
    /\ \E n \in 0..MaxParentLen :
       \E parent1 \in [1..n -> ParentGenes], parent2 \in [1..n -> ParentGenes] :
       \E children \in crossover(parent1, parent2) :
        /\ arg' = [parent1 |-> parent1, parent2 |-> parent2]
        /\ res' = [exc |-> "none", val |-> children,
                   parent1 |-> parent1, parent2 |-> parent2]
    /\ UNCHANGED <<tasks, students, pc, initVars, islandVars>>

(* Crossover.two_point_crossover(parent1, parent2) *)
TwoPointCrossover ==
    /\ pc = "operator"
    /\ op = "none"
    /\ op' = "Crossover.two_point_crossover"
    /\ \E n \in 0..MaxParentLen :
       \E parent1 \in [1..n -> ParentGenes], parent2 \in [1..n -> ParentGenes] :
       \E children \in two_point_crossover(parent1, parent2) :
        /\ arg' = [parent1 |-> parent1, parent2 |-> parent2]
        /\ res' = [exc |-> "none", val |-> children,
                   parent1 |-> parent1, parent2 |-> parent2]
    /\ UNCHANGED <<tasks, students, pc, initVars, islandVars>>

(* Mutation.mutate(solution, temperature_ratio=t10/10), for the empty      *)
(* solution and for solutions naming tasks and workers of the Problem      *)
MutateRatios == {2, 5, 10}
Mutate ==
    /\ pc = "operator"
    /\ op = "none"
    /\ op' = "Mutation.mutate"
    /\ \E s \in SolutionsUpTo(MaxLen), t10 \in MutateRatios :
        /\ s = <<>> \/ (students # <<>> /\ \A i \in DOMAIN s :
                            s[i][1] \in TaskIds(tasks) /\ s[i][2] \in StudentIds(students))
        /\ arg' = [solution |-> s, t10 |-> t10]
        /\ \E m \in mutate(tasks, students, s, t10) :
                res' = [exc |-> "none", val |-> m]
    /\ UNCHANGED <<tasks, students, pc, initVars, islandVars>>

(* the values idx takes at line 118-120, in the order of the writes *)
RECURSIVE WrittenPositions(_, _, _, _)
WrittenPositions(dest_pop, sorted_dest, migrants, j) ==
    IF j > Len(migrants) \/ j > Len(sorted_dest) THEN <<>>
    ELSE IF \A idx \in DOMAIN dest_pop : dest_pop[idx] # sorted_dest[j]
        THEN <<>>
    ELSE LET idx == SetMin({k \in DOMAIN dest_pop : dest_pop[k] = sorted_dest[j]})
         IN  <<idx>> \o WrittenPositions([dest_pop EXCEPT ![idx] = migrants[j]],
                                         sorted_dest, migrants, j + 1)

(* IslandModel._migrate_solutions, one pass of its loop (line 100-120) on  *)
(* a source and a destination population drawn from three individuals, two *)
(* of them of equal fitness; sorted() lets an exception of                 *)
(* calculate_fitness through                                               *)
MaxTransferPop == 3
MaxTransferSource == 2
TransferIndividuals ==
    {<<<<"T1", "S1", <<"si", 0>>>>, <<"T2", "S2", <<"sf", 1>>>>>>,
     <<<<"T2", "S2", <<"sf", 1>>>>, <<"T1", "S1", <<"si", 0>>>>>>,
     <<<<"T1", "S1", <<"si", 0>>>>, <<"T2", "S1", <<"si", 0>>>>>>}

MigrateTransfer ==
    /\ pc = "operator"
    /\ op = "none"
    /\ op' = "IslandModel._migrate_solutions"
    /\ \E n \in 0..MaxTransferSource, k \in 0..MaxTransferPop,
          size \in 1..MaxTransferPop :
       \E source_pop \in [1..n -> TransferIndividuals],
          dest_pop \in [1..k -> TransferIndividuals] :
        /\ arg' = [source_pop |-> source_pop, dest_pop |-> dest_pop,
                   migration_size |-> size]
        /\ IF source_pop = <<>>
           THEN res' = [exc |-> "none", val |-> dest_pop, migrants |-> <<>>,
                       written |-> <<>>]
           ELSE IF \E x \in Range(source_pop) \cup Range(dest_pop) :
                        calculate_fitness(tasks, students, x).exc # "none"
               THEN res' = [exc |-> "KeyError", val |-> dest_pop,
                           migrants |-> <<>>, written |-> <<>>]
           ELSE \E migrants \in {Migrants(EmptyMap, source_pop, size)} :
                \E placed \in {Replace(dest_pop,
                                       SortedByFitness(EmptyMap, dest_pop, TRUE),
                                       migrants, 1)} :
                    res' = [exc |-> placed.exc, val |-> placed.pop,
                            migrants |-> migrants,
                            written |-> WrittenPositions(dest_pop,
                                SortedByFitness(EmptyMap, dest_pop, TRUE),
                                migrants, 1)]
    /\ UNCHANGED <<tasks, students, pc, initVars, islandVars>>

(* GeneticAlgorithm.evolve_population from the end of its while loop on    *)
(* (line 123-149): the offspring pairs of the passes are drawn from three  *)
(* individuals, appended and scored as line 123-133 do, and line 135-149   *)
(* run on the outcome                                                      *)
MaxInjectPop == 3
InjectIndividuals ==
    {<<<<"T1", "S1", <<"si", 0>>>>, <<"T2", "S2", <<"sf", 1>>>>>>,
     <<<<"T1", "S1", <<"si", 0>>>>, <<"T2", "S1", <<"si", 0>>>>>>,
     <<<<"T1", "S1", <<"si", 1>>>>, <<"T2", "S1", <<"si", 0>>>>>>}

RECURSIVE AppendPairs(_, _, _, _)
AppendPairs(e, st, pairs, k) ==
    IF k > Len(pairs) THEN st
    ELSE AppendPairs(e, AppendPair(e, st, [o1 |-> pairs[k][1], o2 |-> pairs[k][2],
                                           xo |-> <<>>]),
                     pairs, k + 1)

EvolveInjectSA ==
    /\ pc = "operator"
    /\ op = "none"
    /\ op' = "GeneticAlgorithm.evolve_population"
    /\ \E n \in 1..MaxInjectPop, use_sa \in BOOLEAN :
       \E pairs \in [1..((n + 1) \div 2) -> InjectIndividuals \X InjectIndividuals] :
        /\ \A k \in DOMAIN pairs : \A x \in {pairs[k][1], pairs[k][2]} :
                calculate_fitness(tasks, students, x).exc = "none"
        /\ \E e \in {[NewEngine([init_strategy |-> "random",
                                 crossover_strategy |-> "single_point",
                                 use_sa |-> use_sa])
                        EXCEPT !.population_size = n]} :
           \E st \in {AppendPairs(e, [new_population |-> <<>>, cache |-> EmptyMap,
                                      generation_best |-> None,
                                      generation_best_fitness |-> Inf,
                                      xo |-> <<>>], pairs, 1)} :
            /\ arg' = [new_population |-> st.new_population,
                       generation_best |-> st.generation_best,
                       generation_best_fitness |-> st.generation_best_fitness,
                       use_sa |-> use_sa]
            /\ IF ~e.use_sa \/ st.generation_best = None
               THEN res' = [exc |-> "none", val |-> st.new_population,
                            ran |-> FALSE, sa |-> <<None, Inf>>]
               ELSE \E sa \in simulated_annealing(tasks, students,
                                    st.generation_best, sa_max_iterations,
                                    sa_cold_iteration) :
                        res' = [exc |-> "none",
                                val |-> InjectSA(e, st, sa).new_population,
                                ran |-> TRUE, sa |-> sa]
    /\ UNCHANGED <<tasks, students, pc, initVars, islandVars>>

(* Mutation.mutate, line 33 alone: the number of passes of the loop of     *)
(* line 35 for a solution of a given length, lengths beyond those whose    *)
(* mutants are enumerated                                                  *)
MaxCountLen == 20
MutateCount ==
    /\ pc = "operator"
    /\ op = "none"
    /\ op' = "Mutation.mutate: num_mutations"
    /\ \E len \in 1..MaxCountLen, t10 \in 1..10 :
        /\ arg' = [len |-> len, t10 |-> t10]
        /\ res' = [exc |-> "none", val |-> num_mutations(len, t10)]
    /\ UNCHANGED <<tasks, students, pc, initVars, islandVars>>

(* FitnessCalculator.calculate_fitness, line 74-81 alone: the overlap      *)
(* penalty (times the total duration) of a solution that names each task   *)
(* of the Problem once, with start times up to MaxOverlapStart             *)
MaxOverlapStart == 2
OverlapPenalty ==
    /\ pc = "operator"
    /\ op = "none"
    /\ students # <<>>
    /\ op' = "FitnessCalculator.calculate_fitness: p_overlap"
    /\ \E s \in [1..Len(tasks) -> TaskIds(tasks) \X StudentIds(students)
                                    \X {<<"n", v>> : v \in 0..MaxOverlapStart}] :
        /\ Covered(s) = TaskIds(tasks)
        /\ ~HasDuplicateTask(s)
        /\ arg' = [solution |-> s]
        /\ res' = [exc |-> "none", val |-> 400 * OverlapSum(tasks, students, s)]
    /\ UNCHANGED <<tasks, students, pc, initVars, islandVars>>

OperatorNext ==
    \/ OverlapPenalty
    \/ MutateCount
    \/ MigrateTransfer
    \/ EvolveInjectSA
    \/ SAImproveSolution
    \/ TournamentSelect
    \/ SinglePointCrossover
    \/ TwoPointCrossover
    \/ Mutate
    \/ FitnessOfSolution
    \/ ValidateSchedule
    \/ LSImproveSolution
    \/ LSTryReassignment
    \/ LSTryTimeAdjustment
    \/ LSTryTaskSwap
    \/ LSReturn

OperatorSpec == OperatorInit /\ [][OperatorNext]_vars

(* Properties of the operators, checked under OperatorSpec *)

(* C11: the fitness SimulatedAnnealing.improve_solution returns is at most *)
(* the fitness of its initial solution, and it is the fitness of the       *)
(* solution returned with it.                                              *)
C11_SANoWorseThanInitial ==
    (op = "SimulatedAnnealing.improve_solution" /\ res.exc = "none")
        => /\ res.val[2] <= Fit(tasks, students, arg.initial_solution)
           /\ res.val[2] = Fit(tasks, students, res.val[1])

(* the annealing ran past its first iteration and returned a solution      *)
(* other and better than the initial one                                   *)
C11_Witness ==
    /\ op = "SimulatedAnnealing.improve_solution"
    /\ res.exc = "none"
    /\ arg.max_iterations >= 2
    /\ arg.cold >= 2
    /\ res.val[1] # arg.initial_solution
    /\ res.val[2] < Fit(tasks, students, arg.initial_solution)

(* C12: during LocalSearch.improve_solution the best fitness never grows   *)
(* from one move (hence from one iteration) to the next, the current       *)
(* solution is the best solution after every move, and the returned        *)
(* fitness is at most the fitness of the input solution.                   *)
C12_CurrentIsBest ==
    (op = "LocalSearch.improve_solution" /\ pc \in LSPositions)
        => res.st.cur = res.st.best

C12_ReturnedNoWorse ==
    (op = "LocalSearch.improve_solution" /\ pc = "returned")
        => res.val[2] <= Fit(tasks, students, arg.solution)

C12_BestNeverGrows ==
    (op = "LocalSearch.improve_solution" /\ pc \in LSPositions /\ pc' \in LSPositions)
        => res'.st.best_fitness <= res.st.best_fitness

C12_LocalSearchMonotone ==
    /\ [](C12_CurrentIsBest /\ C12_ReturnedNoWorse)
    /\ [][C12_BestNeverGrows]_vars

(* a search in its second iteration or later that has improved on its      *)
(* input and whose first two moves of this iteration were not accepted     *)
C12_Witness ==
    /\ op = "LocalSearch.improve_solution"
    /\ pc = "ls_swap"
    /\ res.iteration >= 1
    /\ ~res.st.improved
    /\ res.st.best # arg.solution
    /\ res.st.best_fitness < Fit(tasks, students, arg.solution)

-----------------------------------------------------------------------------
(* GeneticAlgorithm.run on the chain T1 -> T2 -> T3 (durations 2, 3, 1, no *)
(* skill requirements) with two workers of empty skill maps, under the     *)
(* default configuration: random initialization, single-point crossover,   *)
(* no simulated annealing.  The engine is islands[1]; its                  *)
(* current_population holds the local variable `population` of run.        *)

MaxRunGen == 1

RunTasks ==
    <<MkTask("T1", 2, <<>>, EmptyMap), MkTask("T2", 3, <<"T1">>, EmptyMap),
      MkTask("T3", 1, <<"T2">>, EmptyMap)>>
RunStudents == <<MkStudent("S1", EmptyMap), MkStudent("S2", EmptyMap)>>

RunInit ==
    /\ tasks = RunTasks
    /\ students = RunStudents
    /\ op = "run"
    /\ arg = <<>>
    /\ res = [exc |-> "none", val |-> 0]
    /\ pc = "create_population"
    /\ InitializerIdle
    /\ islands = <<NewEngine([init_strategy |-> "random",
                              crossover_strategy |-> "single_point",
                              use_sa |-> FALSE])>>
    /\ migration_interval = 1
    /\ migration_size = 1
    /\ best_solution = None
    /\ best_solution_fitness = Inf
    /\ generation = 0
    /\ island_index = 0
    /\ steps_done = <<0>>
    /\ last_crossover = <<>>
    /\ round = NoRound
    /\ rounds = {}

(* the outcomes of random.shuffle and of the random.choice calls that the  *)
(* chromosomes of the initial population are drawn from                    *)
RunOrders == {<<"T1", "T2", "T3">>, <<"T3", "T2", "T1">>}
RunChoices == {<<"S1", "S2", "S1">>}
RunChromosomes ==
    {random_chromosome(RunTasks, order, choice) :
        order \in RunOrders, choice \in RunChoices}

(* line 156: population = self.initializer.create_population(...) *)
RunCreatePopulation ==
    /\ pc = "create_population"
    /\ \E pop \in create_population(tasks, students, islands[1].init_strategy,
                                    islands[1].population_size) :
        /\ Range(pop) \subseteq RunChromosomes
        /\ islands' = [islands EXCEPT ![1].current_population = pop]
    /\ pc' = "for"
    /\ UNCHANGED <<tasks, students, harnessVars, initVars, modelVars, historyVars>>

(* line 159-176: one pass of the loop: every solution of the population is *)
(* scored and kept as best_solution when strictly better, then the         *)
(* population is evolved                                                   *)
run_generation(e) ==
    UNION {{[scored EXCEPT !.current_population = st.new_population,
                           !.fitness_cache = st.cache] :
                st \in evolve_population(scored, scored.current_population)} :
            scored \in {EvaluateFrom(e, 1)}}

RunGeneration ==
    /\ pc = "for"
    /\ generation < MaxRunGen
    /\ \E e \in run_generation(islands[1]) : islands' = <<e>>
    /\ generation' = generation + 1
    /\ UNCHANGED <<tasks, students, harnessVars, pc, initVars, migration_interval,
                   migration_size, best_solution, best_solution_fitness,
                   island_index, historyVars>>

(* line 182: return self.best_solution, self.best_solution_fitness *)
RunReturn ==
    /\ pc = "for"
    /\ generation = MaxRunGen
    /\ res' = [exc |-> "none",
               val |-> <<islands[1].best_solution, islands[1].best_solution_fitness>>]
    /\ pc' = "returned"
    /\ UNCHANGED <<tasks, students, op, arg, initVars, islandVars>>

RunNext ==
    \/ RunCreatePopulation
    \/ RunGeneration
    \/ RunReturn

RunSpec == RunInit /\ [][RunNext]_vars

(* Properties of GeneticAlgorithm.run, checked under RunSpec *)

(* C13: the solution run returns covers the three tasks, has finite        *)
(* fitness and has dependency penalty 0.                                   *)
C13_ReturnedIsFeasible ==
    (op = "run" /\ pc = "returned")
        => /\ Covered(res.val[1]) = TaskIds(tasks)
           /\ res.val[2] < Inf
           /\ DepViolations(tasks, res.val[1]) = 0

(* a solution taken with the start times it carries: no assignment starts  *)
(* before the completion of an assignment of one of its task's             *)
(* dependencies, and no two assignments of a worker overlap in time        *)
StartOf(sol, i) == Float(sol[i][3])
EndOf(ts, sol, i) == Float(sol[i][3]) + Duration(ts, sol[i][1])

DependenciesRespected(ts, sol) ==
    \A i, j \in DOMAIN sol :
        (\E k \in DOMAIN TaskOf(ts, sol[i][1]).dependencies :
            TaskOf(ts, sol[i][1]).dependencies[k] = sol[j][1])
            => StartOf(sol, i) >= EndOf(ts, sol, j)

NoWorkerOverlap(ts, sol) ==
    \A i, j \in DOMAIN sol :
        (i < j /\ sol[i][2] = sol[j][2])
            => ~(StartOf(sol, i) < EndOf(ts, sol, j) /\ StartOf(sol, j) < EndOf(ts, sol, i))

(* C14: validate_schedule returns True only for solutions in which, with   *)
(* the start times they carry, no task starts before the completion of one *)
(* of its dependencies and no two assignments of a worker overlap.         *)
C14_ValidOnlyIfFeasibleAsGiven ==
    (op = "validate_schedule" /\ res.exc = "none" /\ res.val)
        => /\ DependenciesRespected(tasks, arg.solution)
           /\ NoWorkerOverlap(tasks, arg.solution)

-----------------------------------------------------------------------------
(* Further properties of IslandModel.run, checked under IslandSpec *)

(* the islands whose population has been created: all of them once the     *)
(* loop of line 39 is over, the first island_index of them before          *)
Initialized(k) == pc # "initialize" \/ k <= island_index

(* C15: after initialization, after every generation step and after every  *)
(* transfer of a migration round, the current population of each island    *)
(* has exactly its configured population_size individuals.                 *)
C15_PopulationSizeKept ==
    \A k \in DOMAIN islands :
        Initialized(k)
            => Len(islands[k].current_population) = islands[k].population_size

(* a second generation has begun after a migration round that changed the  *)
(* population of a destination island                                      *)
C15_Witness ==
    /\ pc = "evolve"
    /\ generation >= 1
    /\ rounds # {}
    /\ Len(islands) >= 2
    /\ \E k \in DOMAIN round.dest_after :
            round.dest_after[k] # round.dest_before[k]
    /\ \A k \in DOMAIN islands :
            Len(islands[k].current_population) = islands[k].population_size

-----------------------------------------------------------------------------
(* Further properties of calculate_fitness, checked under OperatorSpec *)

FitnessReturned ==
    op = "FitnessCalculator.calculate_fitness" /\ res.exc = "none"

CoversEachTaskOnce(ts, sol) ==
    Covered(sol) = TaskIds(ts) /\ ~HasDuplicateTask(sol)

(* C16: for a solution that covers each task exactly once, in which no     *)
(* task starts before the completion of a dependency and no two            *)
(* assignments of a worker overlap, the dependency term and the overlap    *)
(* term of calculate_fitness are both 0.                                   *)
C16_FeasibleHasNoPenalty ==
    (/\ FitnessReturned
     /\ NamesOnlyProblem(arg.solution)
     /\ CoversEachTaskOnce(tasks, arg.solution)
     /\ DependenciesRespected(tasks, arg.solution)
     /\ NoWorkerOverlap(tasks, arg.solution))
        => /\ DepViolations(tasks, arg.solution) = 0
           /\ OverlapSum(tasks, students, arg.solution) = 0
           /\ res.val < Inf

(* a task and its dependency back to back on one worker, the dependent     *)
(* task listed first                                                       *)
C16_Witness ==
    /\ FitnessReturned
    /\ Len(arg.solution) = 2
    /\ NamesOnlyProblem(arg.solution)
    /\ CoversEachTaskOnce(tasks, arg.solution)
    /\ arg.solution[1][2] = arg.solution[2][2]
    /\ arg.solution[2][1] \in Range(TaskOf(tasks, arg.solution[1][1]).dependencies)
    /\ DependenciesRespected(tasks, arg.solution)
    /\ NoWorkerOverlap(tasks, arg.solution)
    /\ OverlapSum(tasks, students, arg.solution) = 0

Reorderings(s) ==
    {[i \in DOMAIN s |-> s[p[i]]] : p \in Orders(DOMAIN s)}

(* C17: calculate_fitness gives every permutation of the assignments of a  *)
(* solution the result it gives the solution.                              *)
C17_OrderInvariant ==
    op = "FitnessCalculator.calculate_fitness"
        => \A p \in Reorderings(arg.solution) :
                calculate_fitness(tasks, students, p) = res

-----------------------------------------------------------------------------
(* Properties of the genetic operators, checked under OperatorSpec *)

CrossoverApplied ==
    op \in {"Crossover.crossover", "Crossover.two_point_crossover"}

(* C18: a crossover operator called on empty parents, and Mutation.mutate  *)
(* called on an empty solution, raise an error and return nothing.         *)
C18_EmptyInputRaises ==
    /\ (CrossoverApplied /\ arg.parent1 = <<>> /\ arg.parent2 = <<>>)
            => res.exc # "none"
    /\ (op = "Mutation.mutate" /\ arg.solution = <<>>)
            => res.exc # "none"

SelectionReturned ==
    op = "Selection.tournament_select" /\ res.exc = "none"

FitnessIn(pop, p) == Fit(tasks, students, pop[p])

(* C19: tournament_select returns a member of the population whose fitness *)
(* is minimal among the min(3, population size) individuals sampled        *)
(* without replacement; for a population of at most 3 it is of minimal     *)
(* fitness in the whole population, and for a population of 1 it is that   *)
(* individual.                                                             *)
C19_TournamentReturnsSampleMinimum ==
    SelectionReturned
        => LET pop == arg.population
               sample == arg.sample
           IN  /\ Len(sample) = (IF Len(pop) < 3 THEN Len(pop) ELSE 3)
               /\ \A i, j \in DOMAIN sample : i # j => sample[i] # sample[j]
               /\ \E i \in DOMAIN sample :
                    /\ res.val = pop[sample[i]]
                    /\ \A j \in DOMAIN sample :
                            FitnessIn(pop, sample[i]) <= FitnessIn(pop, sample[j])
               /\ Len(pop) <= 3
                    => \A q \in DOMAIN pop :
                            Fit(tasks, students, res.val) <= FitnessIn(pop, q)
               /\ Len(pop) = 1 => res.val = pop[1]

(* a population of three individuals of three different fitness values,    *)
(* the best of them sampled last                                           *)
C19_Witness ==
    /\ SelectionReturned
    /\ Len(arg.population) = 3
    /\ \A p, q \in 1..3 :
            p # q => FitnessIn(arg.population, p) # FitnessIn(arg.population, q)
    /\ res.val = arg.population[arg.sample[3]]

(* C20: single-point crossover of parents of length at most 1 and          *)
(* two-point crossover of parents of length at most 2 return children      *)
(* equal to the parents, and leave the parents as they were.               *)
C20_ShortParentsReturned ==
    (\/ op = "Crossover.crossover" /\ Len(arg.parent1) <= 1
     \/ op = "Crossover.two_point_crossover" /\ Len(arg.parent1) <= 2)
        => /\ res.exc = "none"
           /\ res.val = <<arg.parent1, arg.parent2>>
           /\ res.parent1 = arg.parent1
           /\ res.parent2 = arg.parent2

(* two-point crossover of two parents of length 2 that differ in both      *)
(* positions                                                               *)
C20_Witness ==
    /\ op = "Crossover.two_point_crossover"
    /\ Len(arg.parent1) = 2
    /\ arg.parent1[1] # arg.parent2[1]
    /\ arg.parent1[2] # arg.parent2[2]
    /\ res.val = <<arg.parent1, arg.parent2>>

-----------------------------------------------------------------------------
(* Properties of a migration transfer, checked under OperatorSpec *)

TransferDone ==
    op = "IslandModel._migrate_solutions" /\ res.exc = "none"

MinOf(S) == SetMin(S)

(* the number of migrants that are placed *)
Placed ==
    MinOf({arg.migration_size, Len(arg.source_pop), Len(arg.dest_pop)})

(* the positions P hold individuals of the destination none of which is    *)
(* better than an individual outside P                                     *)
WorstPositions(pop, P) ==
    \A p \in P, q \in (DOMAIN pop) \ P :
        Fit(tasks, students, pop[q]) <= Fit(tasks, students, pop[p])

(* C21, as the code has it: a transfer with m = min(migration_size, source  *)
(* size, destination size) migrants leaves the destination as it was       *)
(* except at m distinct positions, positions of m worst individuals of the *)
(* destination before the transfer, which afterwards hold the m best       *)
(* individuals of the source, one each; an individual of the destination   *)
(* that equals a migrant may be the copy of that migrant.                  *)
C21_MigrantsOverWorst ==
    TransferDone
        => /\ Len(res.val) = Len(arg.dest_pop)
           /\ Len(res.migrants) >= Placed
           /\ \E f \in [1..Placed -> DOMAIN arg.dest_pop] :
                /\ \A i, j \in 1..Placed : i # j => f[i] # f[j]
                /\ WorstPositions(arg.dest_pop, {f[j] : j \in 1..Placed})
                /\ \A j \in 1..Placed : res.val[f[j]] = res.migrants[j]
                /\ \A p \in DOMAIN arg.dest_pop :
                        p \notin {f[j] : j \in 1..Placed}
                            => res.val[p] = arg.dest_pop[p]

(* C21, as stated: the m migrants are written to m distinct positions of   *)
(* the destination, the positions of m worst individuals before the        *)
(* transfer, also with individuals of equal content or equal fitness.      *)
C21_DistinctPositionsWritten ==
    TransferDone
        => /\ Len(res.written) = Placed
           /\ \A i, j \in 1..Placed : i # j => res.written[i] # res.written[j]
           /\ WorstPositions(arg.dest_pop, Range(res.written))

(* two migrants into a destination of three whose second worst individual  *)
(* has the content of the best migrant: both writes go to the position of  *)
(* the worst individual, and the destination still holds both migrants     *)
C21_Witness ==
    /\ TransferDone
    /\ Placed = 2
    /\ Len(arg.dest_pop) = 3
    /\ res.migrants[1] # res.migrants[2]
    /\ res.written = <<1, 1>>
    /\ arg.dest_pop[2] = res.migrants[1]
    /\ res.val = <<res.migrants[2], res.migrants[1], arg.dest_pop[3]>>

-----------------------------------------------------------------------------
(* Frame of the steps of the island model, checked under IslandSpec *)

(* C22: a generation step of island i leaves the population, the fitness   *)
(* cache and the running best of every other island as they were; the      *)
(* transfer out of island i changes no population but that of island       *)
(* (i+1) mod N, and with two or more islands it leaves the population of   *)
(* island i as it was.                                                     *)
C22_StepsTouchOneIsland ==
    [][/\ pc = "evolve"
            => \A k \in DOMAIN islands :
                    k # island_index + 1
                        => /\ islands'[k].current_population
                                = islands[k].current_population
                           /\ islands'[k].fitness_cache = islands[k].fitness_cache
                           /\ islands'[k].best_solution = islands[k].best_solution
                           /\ islands'[k].best_solution_fitness
                                = islands[k].best_solution_fitness
       /\ pc = "migrate"
            => /\ \A k \in DOMAIN islands :
                    k # ((island_index + 1) % Len(islands)) + 1
                        => islands'[k].current_population
                                = islands[k].current_population
               /\ Len(islands) >= 2
                    => islands'[island_index + 1].current_population
                            = islands[island_index + 1].current_population]_vars

(* two islands, both after a generation step that filled the fitness cache *)
(* and a transfer that changed the population of its destination           *)
C22_Witness ==
    /\ Len(islands) >= 2
    /\ \A k \in DOMAIN islands : steps_done[k] >= 1
    /\ islands[1].fitness_cache # islands[2].fitness_cache
    /\ \E j \in DOMAIN round.dest_after :
            /\ round.sent[j] # <<>>
            /\ round.dest_after[j] # round.dest_before[j]

-----------------------------------------------------------------------------
(* Properties of the injection of the annealed solution, checked under     *)
(* OperatorSpec                                                            *)

InjectDone == op = "GeneticAlgorithm.evolve_population"

(* C23: when simulated annealing is enabled and returns a fitness strictly *)
(* below that of the generation's best offspring, the new population       *)
(* changes at exactly one position, one holding an individual of maximal   *)
(* fitness, which receives the annealed solution; in every other case, and *)
(* whenever simulated annealing is disabled, the new population stays as   *)
(* the while loop left it.                                                 *)
C23_InjectionReplacesOneWorst ==
    InjectDone
        => IF arg.use_sa /\ res.ran /\ res.sa[2] < arg.generation_best_fitness
           THEN \E i \in DOMAIN arg.new_population :
                    /\ \A j \in DOMAIN arg.new_population :
                            Fit(tasks, students, arg.new_population[j])
                                <= Fit(tasks, students, arg.new_population[i])
                    /\ res.val[i] = res.sa[1]
                    /\ res.val[i] # arg.new_population[i]
                    /\ res.val = [arg.new_population EXCEPT ![i] = res.sa[1]]
           ELSE res.val = arg.new_population

(* an annealed solution better than the generation's best went into a      *)
(* population of three whose first individual was not its worst            *)
C23_Witness ==
    /\ InjectDone
    /\ arg.use_sa
    /\ res.sa[2] < arg.generation_best_fitness
    /\ Len(arg.new_population) = 3
    /\ Fit(tasks, students, arg.new_population[1])
            < Fit(tasks, students, arg.new_population[2])
    /\ res.val[2] = res.sa[1]
    /\ res.val[1] = arg.new_population[1]

(* simulated annealing ran and did not improve on the generation's best *)
C23_WitnessNoGain ==
    /\ InjectDone
    /\ res.ran
    /\ res.sa[2] >= arg.generation_best_fitness
    /\ res.val = arg.new_population

-----------------------------------------------------------------------------
(* Properties of Mutation.mutate, checked under OperatorSpec *)

(* n / d rounded to the nearest integer, a tie going to the even one as    *)
(* round() has it                                                          *)
RoundDiv(n, d) ==
    LET q == n \div d
        r == n % d
    IN  IF 2 * r < d THEN q
        ELSE IF 2 * r > d THEN q + 1
        ELSE IF q % 2 = 0 THEN q ELSE q + 1

(* C24: one call of Mutation.mutate on a solution of length L with         *)
(* temperature ratio t applies max(1, round(L * 0.1 * t)) mutation         *)
(* operators, 2 of them for L = 15 and t = 1.                              *)
C24_RoundedNumberOfMutations ==
    op = "Mutation.mutate: num_mutations"
        => res.val = (IF RoundDiv(arg.len * arg.t10, 100) > 1
                      THEN RoundDiv(arg.len * arg.t10, 100) ELSE 1)

MutateReturned == op = "Mutation.mutate" /\ arg.solution # <<>>

(* C25: Mutation.mutate on a non-empty solution returns a sequence of the  *)
(* same length with the same task identifier at every position; workers    *)
(* and start times may differ, and no start time of the result is negative *)
(* when none of the input is. The input, kept in arg, is the sequence the  *)
(* operator was given.                                                     *)
C25_MutateKeepsTasks ==
    MutateReturned
        => /\ res.val # None
           /\ Len(res.val) = Len(arg.solution)
           /\ \A i \in DOMAIN arg.solution : res.val[i][1] = arg.solution[i][1]
           /\ (\A i \in DOMAIN arg.solution : Float(arg.solution[i][3]) >= 0)
                => \A i \in DOMAIN res.val : Float(res.val[i][3]) >= 0

(* a mutation of a solution of two genes that exchanged the two workers *)
C25_Witness ==
    /\ MutateReturned
    /\ Len(arg.solution) = 2
    /\ arg.solution[1][2] # arg.solution[2][2]
    /\ res.val[1][2] = arg.solution[2][2]
    /\ res.val[2][2] = arg.solution[1][2]

(* a mutation that moved a start time and left the workers *)
C25_WitnessStart ==
    /\ MutateReturned
    /\ \E i \in DOMAIN arg.solution :
            Float(res.val[i][3]) # Float(arg.solution[i][3])
    /\ \A i \in DOMAIN arg.solution : res.val[i][2] = arg.solution[i][2]

-----------------------------------------------------------------------------
(* Properties of the populations of an engine, checked under EngineSpec *)

(* C26: every individual of every island's population covers each task of *)
(* the Problem exactly once and so has a finite fitness, after             *)
(* initialization and after any number of generation steps.                *)
C26_IndividualsCoverTasks ==
    \A k \in DOMAIN islands :
        \A i \in DOMAIN islands[k].current_population :
            /\ CoversEachTaskOnce(tasks, islands[k].current_population[i])
            /\ Fit(tasks, students, islands[k].current_population[i]) < Inf

-----------------------------------------------------------------------------
(* Properties of the result of IslandModel.run, checked under IslandSpec *)

(* C27: when IslandModel.run returns, the returned best fitness is at most *)
(* the fitness of every individual that was in a population during the     *)
(* run, those of the populations the last generation step and the last     *)
(* migration round left included.                                          *)
C27_NoBetterIndividualLost ==
    pc = "returned"
        => \A k \in DOMAIN islands :
            \A i \in DOMAIN islands[k].current_population :
                res.val[2] <= Fit(tasks, students, islands[k].current_population[i])

-----------------------------------------------------------------------------
(* Properties of the constructed chromosomes, checked under PopSpec *)

(* every dependency of a task stands before the task in the sequence *)
DependenciesEarlier(ts, sol) ==
    \A i, j \in DOMAIN sol :
        (\E k \in DOMAIN TaskOf(ts, sol[i][1]).dependencies :
            TaskOf(ts, sol[i][1]).dependencies[k] = sol[j][1])
            => j < i

(* C28: for a Problem with an acyclic dependency graph and at least one    *)
(* worker, every chromosome of the intelligent and of the dependency-based *)
(* strategy lists each task exactly once with its dependencies earlier in  *)
(* the sequence, starts no task before the completion of a dependency and  *)
(* has no two overlapping intervals of one worker.                         *)
C28_ConstructedChromosomesFeasible ==
    (strategy \in {"intelligent", "dependency_based"} /\ students # <<>>)
        => \A i \in DOMAIN population :
            /\ CoversEachTaskOnce(tasks, population[i])
            /\ DependenciesEarlier(tasks, population[i])
            /\ DependenciesRespected(tasks, population[i])
            /\ NoWorkerOverlap(tasks, population[i])

(* an intelligent chromosome of three tasks on two workers, in an order    *)
(* other than that of the task table                                       *)
C28_Witness ==
    /\ strategy = "intelligent"
    /\ Len(students) = 2
    /\ Len(tasks) = 3
    /\ population # <<>>
    /\ population[1][1][1] # tasks[1].id
    /\ \E i, j \in DOMAIN population[1] : population[1][i][2] # population[1][j][2]

(* the same for the dependency-based strategy *)
C28_WitnessDependencyBased ==
    /\ strategy = "dependency_based"
    /\ Len(students) = 2
    /\ Len(tasks) = 3
    /\ population # <<>>
    /\ population[1][1][1] # tasks[1].id

-----------------------------------------------------------------------------
(* Properties of the running best and the fitness cache of an engine,      *)
(* checked under IslandSpec                                                *)

(* the stored best of engine e has the stored fitness, and every cache     *)
(* entry is the fitness of its key                                         *)
BestAndCacheExact(e) ==
    /\ IF e.best_solution = None THEN e.best_solution_fitness = Inf
       ELSE Fit(tasks, students, e.best_solution) = e.best_solution_fitness
    /\ \A key \in DOMAIN e.fitness_cache :
            e.fitness_cache[key] = Fit(tasks, students, key)

(* C29: in every reachable state of an engine the stored best solution     *)
(* evaluates to best_solution_fitness and every cache entry equals the     *)
(* fitness of its key; no step raises best_solution_fitness, replaces the  *)
(* stored best without lowering it, or drops a cache key: generation       *)
(* steps and migration leave stored solutions as they are.                 *)
C29_BestAndCacheKept ==
    /\ [](\A k \in DOMAIN islands : BestAndCacheExact(islands[k]))
    /\ [][\A k \in DOMAIN islands :
            /\ islands'[k].best_solution_fitness <= islands[k].best_solution_fitness
            /\ islands'[k].best_solution_fitness = islands[k].best_solution_fitness
                    => islands'[k].best_solution = islands[k].best_solution
            /\ DOMAIN islands[k].fitness_cache
                    \subseteq DOMAIN islands'[k].fitness_cache]_vars

(* after two generation steps and a migration round an engine still holds  *)
(* a best solution that is no longer in its population, with other         *)
(* solutions in its cache                                                  *)
C29_Witness ==
    /\ rounds # {}
    /\ \E k \in DOMAIN islands :
        /\ steps_done[k] >= 2
        /\ islands[k].best_solution # None
        /\ islands[k].best_solution \notin Range(islands[k].current_population)
        /\ Cardinality(DOMAIN islands[k].fitness_cache) >= 2
        /\ \E key \in DOMAIN islands[k].fitness_cache :
                islands[k].fitness_cache[key] > islands[k].best_solution_fitness

-----------------------------------------------------------------------------
(* Properties of the overlap penalty, checked under OperatorSpec *)

OverlapScored == op = "FitnessCalculator.calculate_fitness: p_overlap"

(* C30: for a solution that covers each task exactly once, durations being *)
(* positive, the overlap penalty is 0 exactly when no two assignments of   *)
(* one worker overlap in time; an overlap of two intervals that are not    *)
(* adjacent in start-time order never goes unnoticed.                      *)
C30_OverlapPenaltyZeroIffDisjoint ==
    OverlapScored
        => (res.val = 0 <=> NoWorkerOverlap(tasks, arg.solution))

(* three assignments of one worker of which the first and the last in      *)
(* start-time order overlap and the last two do not: the penalty is not 0  *)
C30_Witness ==
    /\ OverlapScored
    /\ Len(arg.solution) = 3
    /\ \A i \in 1..3 : arg.solution[i][2] = arg.solution[1][2]
    /\ \E i, j, k \in 1..3 :
        /\ StartOf(arg.solution, i) < StartOf(arg.solution, j)
        /\ StartOf(arg.solution, j) < StartOf(arg.solution, k)
        /\ StartOf(arg.solution, k) < EndOf(tasks, arg.solution, i)
        /\ StartOf(arg.solution, k) >= EndOf(tasks, arg.solution, j)
    /\ res.val > 0

====
